---- MODULE Spec2Model ----
(***************************************************************************)
(* Measure competition and financial metrics engine of run_web.py          *)
(* (class Engine, driven by main).                                         *)
(*                                                                         *)
(* Numbers.  The engine computes with Python floats.  The model computes   *)
(* with exact rationals <<numerator, denominator>> in lowest terms with a  *)
(* positive denominator, so every equality below is an equality of real    *)
(* numbers (what the floats approximate up to rounding).                   *)
(*                                                                         *)
(* Years.  handyvars.aeo_years is a contiguous list of year strings; the   *)
(* model numbers the years 1..NumYears, int(yr) and str(int(yr) - 1) are   *)
(* then the year number and its predecessor.                               *)
(***************************************************************************)
EXTENDS Integers, Sequences, FiniteSets, TLC

(***************************************************************************)
(* Bounds of the model.                                                    *)
(***************************************************************************)
NumYears == 3
NumMeasures == 2
NumCompetitors == 3
MaxFlows == 3
MaxLife == 4

(***************************************************************************)
(* Exact rational arithmetic.                                              *)
(***************************************************************************)
RECURSIVE GCD(_, _)
GCD(a, b) == IF b = 0 THEN a ELSE GCD(b, a % b)

Abs(a) == IF a < 0 THEN -a ELSE a

RNorm(n, d) ==
    LET g == GCD(Abs(n), Abs(d))
        s == IF d < 0 THEN -1 ELSE 1
    IN  <<(s * n) \div g, (s * d) \div g>>

\* Eval(v) is v.  TLC builds functions lazily and evaluates them anew at each
\* use; the comparison makes it evaluate v once, where v is a local variable
\* of the code that is computed once and read many times.
Eval(v) == IF v = v THEN v ELSE v

R(n) == <<n, 1>>
Frac(n, d) == RNorm(n, d)
Zero == R(0)
One == R(1)

RAdd(a, b) ==
    LET g == GCD(a[2], b[2])
    IN  RNorm(a[1] * (b[2] \div g) + b[1] * (a[2] \div g), (a[2] \div g) * b[2])

RNeg(a) == <<-a[1], a[2]>>
RSub(a, b) == RAdd(a, RNeg(b))

RMul(a, b) ==
    LET g1 == GCD(Abs(a[1]), b[2])
        g2 == GCD(Abs(b[1]), a[2])
    IN  IF a[1] = 0 \/ b[1] = 0 THEN Zero
        ELSE <<(a[1] \div g1) * (b[1] \div g2), (a[2] \div g2) * (b[2] \div g1)>>

RInv(a) == IF a[1] < 0 THEN <<-a[2], -a[1]>> ELSE <<a[2], a[1]>>
RDiv(a, b) == RMul(a, RInv(b))

RLt(a, b) ==
    LET g == GCD(a[2], b[2])
    IN  a[1] * (b[2] \div g) < b[1] * (a[2] \div g)
RLe(a, b) == a = b \/ RLt(a, b)
RAbs(a) == <<Abs(a[1]), a[2]>>
RFloor(a) == a[1] \div a[2]

RECURSIVE RSumSeq(_)
RSumSeq(s) == IF s = <<>> THEN Zero ELSE RAdd(Head(s), RSumSeq(Tail(s)))

RECURSIVE RMinSeq(_)
RMinSeq(s) ==
    IF Len(s) = 1 THEN s[1]
    ELSE LET r == RMinSeq(Tail(s)) IN IF RLt(r, s[1]) THEN r ELSE s[1]

RECURSIVE MinOfSet(_)
MinOfSet(S) ==
    LET x == CHOOSE v \in S : TRUE
    IN  IF S = {x} THEN x
        ELSE LET r == MinOfSet(S \ {x}) IN IF r < x THEN r ELSE x

\* The elements of a finite set of integers in increasing order
\* (sorted(...) and numpy.unique(...) on years).
RECURSIVE SortedSeq(_)
SortedSeq(S) ==
    IF S = {} THEN <<>>
    ELSE LET x == MinOfSet(S) IN <<x>> \o SortedSeq(S \ {x})

\* Python int(x) on a float: truncation toward zero.
PyInt(a) == IF a[1] >= 0 THEN a[1] \div a[2] ELSE -((-a[1]) \div a[2])

\* Python round(x) on a float: to the nearest integer, halves to the even one.
PyRound(a) ==
    LET fl == RFloor(a)
        twice == RSub(RMul(R(2), a), R(2 * fl))
    IN  IF RLt(twice, One) THEN fl
        ELSE IF RLt(One, twice) THEN fl + 1
        ELSE IF fl % 2 = 0 THEN fl ELSE fl + 1

(***************************************************************************)
(* UsefulVars: the global variables of a run.                              *)
(***************************************************************************)
adopt_schemes == <<"Technical potential", "Max adoption potential">>
retro_rate == Frac(1, 100)
aeo_years == 1 .. NumYears

out_break_czones ==
    << <<"AIA CZ1", "AIA_CZ1">>, <<"AIA CZ2", "AIA_CZ2">>, <<"AIA CZ3", "AIA_CZ3">>,
       <<"AIA CZ4", "AIA_CZ4">>, <<"AIA CZ5", "AIA_CZ5">> >>

ResBldgs == {"single family home", "multi family home", "mobile home"}
ComBldgs ==
    {"assembly", "education", "food sales", "food service", "health care",
     "mercantile/service", "lodging", "large office", "small office", "warehouse", "other"}

out_break_bldgtypes ==
    << <<"Residential (New)", {"new"} \cup ResBldgs>>,
       <<"Residential (Existing)", {"existing"} \cup ResBldgs>>,
       <<"Commercial (New)", {"new"} \cup ComBldgs>>,
       <<"Commercial (Existing)", {"existing"} \cup ComBldgs>> >>

out_break_enduses ==
    << <<"Heating (Equip.)", {"heating", "secondary heating"}>>,
       <<"Cooling (Equip.)", {"cooling"}>>,
       <<"Heating (Env.)", {"heating", "secondary heating"}>>,
       <<"Cooling (Env.)", {"cooling"}>>,
       <<"Ventilation", {"ventilation"}>>,
       <<"Lighting", {"lighting"}>>,
       <<"Water Heating", {"water heating"}>>,
       <<"Refrigeration", {"refrigeration", "other"}>>,
       <<"Computers and Electronics", {"PCs", "non-PC office equipment", "TVs", "computers"}>>,
       <<"Other", {"cooking", "drying", "ceiling fan", "fans & pumps", "MELs", "other"}>> >>

(***************************************************************************)
(* Contributing microsegment keys.  A key is the tuple whose str() the     *)
(* engine uses as dict key: (mseg type, climate zone, building type, fuel, *)
(* end use, [technology type,] technology, structure type).                *)
(***************************************************************************)
KeyRL1 ==
    <<"primary", "AIA_CZ1", "single family home", "electricity", "lighting",
      "general service (LED)", "existing">>
KeyRL2 ==
    <<"primary", "AIA_CZ1", "single family home", "electricity", "lighting",
      "linear fluorescent (LED)", "existing">>
KeySH ==
    <<"secondary", "AIA_CZ1", "single family home", "electricity", "heating",
      "demand", "lighting gain", "existing">>
KeyHS ==
    <<"primary", "AIA_CZ1", "single family home", "electricity", "heating",
      "supply", "ASHP", "existing">>
KeyHD ==
    <<"primary", "AIA_CZ1", "single family home", "electricity", "heating",
      "demand", "windows", "existing">>
KeyCL ==
    <<"primary", "AIA_CZ1", "large office", "electricity", "lighting",
      "general service (LED)", "new">>
KeyCS ==
    <<"primary", "AIA_CZ1", "single family home", "electricity", "cooling",
      "supply", "ASHP", "existing">>

AllKeys == {KeyRL1, KeyRL2, KeySH, KeyHS, KeyHD, KeyCL, KeyCS}

\* The strings of the keys above in Python's string order (code points).
StrOrder ==
    <<"AIA_CZ1", "ASHP", "cooling", "demand", "electricity", "existing", "general service (LED)",
      "heating", "large office", "lighting", "lighting gain", "linear fluorescent (LED)",
      "new", "primary", "secondary", "single family home", "supply", "windows">>

StrRank(w) == CHOOSE i \in 1 .. Len(StrOrder) : StrOrder[i] = w

\* str(a) < str(b) for two keys: the first differing element decides.
RECURSIVE KeyLess(_, _)
KeyLess(a, b) ==
    IF a = <<>> THEN b # <<>>
    ELSE IF b = <<>> THEN FALSE
    ELSE IF Head(a) = Head(b) THEN KeyLess(Tail(a), Tail(b))
    ELSE StrRank(Head(a)) < StrRank(Head(b))

RECURSIVE SortKeysDescending(_)
SortKeysDescending(S) ==
    IF S = {} THEN <<>>
    ELSE LET x == CHOOSE k \in S : \A o \in S \ {k} : KeyLess(o, k)
         IN  <<x>> \o SortKeysDescending(S \ {x})

\* sorted(numpy.unique(mseg_keys)): the distinct keys in increasing order.
RECURSIVE SortKeys(_)
SortKeys(S) ==
    IF S = {} THEN <<>>
    ELSE LET x == CHOOSE k \in S : \A o \in S \ {k} : KeyLess(k, o)
         IN  <<x>> \o SortKeys(S \ {x})

\* "word" in msu, for the words the engine looks for in a key string.
InKey(w, k) == \E i \in 1 .. Len(k) : k[i] = w

IsResKey(k) == \E b \in ResBldgs : InKey(b, k)

\* str((cz_bldg_struct[1], cz_bldg_struct[2], cz_bldg_struct[-1]))
secnd_mseg_adjkey(k) == <<k[2], k[3], k[Len(k)]>>

\* msu_split_key of htcl_adj_rec / htcl_adj: climate zone, building type,
\* structure type, fuel type, end use.
msu_split_key(k) == <<k[2], k[3], k[Len(k)], k[4], k[5]>>

\* keys[-3] of an 8-element heating/cooling key: the technology type.
tech_typ(k) == k[Len(k) - 2]

(***************************************************************************)
(* compete_adj_dicts: the climate zone / building class / end use breakout *)
(* bucket of a key.  Each loop of the code runs over the whole table, so   *)
(* the last matching entry wins.                                           *)
(***************************************************************************)
LastMatch(tbl, P(_)) ==
    LET hits == {i \in 1 .. Len(tbl) : P(tbl[i])}
    IN  IF hits = {} THEN "undefined"
        ELSE tbl[CHOOSE i \in hits : \A j \in hits : j <= i][1]

out_cz(k) == LastMatch(out_break_czones, LAMBDA cz : k[2] = cz[2])

out_bldg(k) ==
    LastMatch(out_break_bldgtypes, LAMBDA bldg : k[3] \in bldg[2] /\ k[Len(k)] \in bldg[2])

HtClEquip == {"Heating (Equip.)", "Cooling (Equip.)"}
HtClEnv == {"Heating (Env.)", "Cooling (Env.)"}

out_eu(k) ==
    LET sets(eu) ==
            IF k[5] = "other" THEN TRUE
            ELSE IF k[5] \in eu[2]
                 THEN \/ (eu[1] \in HtClEquip /\ k[6] = "supply")
                      \/ (eu[1] \in HtClEnv /\ k[6] = "demand" /\ k[1] = "primary")
                      \/ eu[1] \notin (HtClEquip \cup HtClEnv)
                 ELSE InKey("lighting gain", k)
        val(eu) ==
            IF k[5] = "other" THEN (IF k[6] = "freezers" THEN "Refrigeration" ELSE "Other")
            ELSE IF k[5] \in eu[2] THEN eu[1]
            ELSE "Lighting"
        hits == {i \in 1 .. Len(out_break_enduses) : sets(out_break_enduses[i])}
    IN  IF hits = {} THEN "undefined"
        ELSE val(out_break_enduses[CHOOSE i \in hits : \A j \in hits : j <= i])

Bucket(k) == <<out_cz(k), out_bldg(k), out_eu(k)>>

(***************************************************************************)
(* Input data of a run (read by main before the Engine is built): the      *)
(* measures and, per contributing microsegment, the baseline segment data  *)
(* prepared upstream.  Data of one baseline segment are the same for every *)
(* measure that applies to it; a measure with a sub-market scaling         *)
(* fraction holds that fraction of the segment.                            *)
(***************************************************************************)
Measure(keys, entry, life, sbmkt, eff_odd, eff_even, cap) ==
    [keys |-> keys, market_entry_year |-> entry, life |-> life, sbmkt |-> sbmkt,
     eff_odd |-> eff_odd, eff_even |-> eff_even, cap |-> cap]

\* The lifetimes are such that 1 / lifetime + retro_rate is a multiple of a
\* power of 1/2 (measures: 1, baseline: 1/4 or 1/8), which keeps the exact
\* arithmetic within TLC's integers.
Catalog ==
    { Measure({KeyRL1, KeyRL2, KeySH, KeyHS}, 1, Frac(100, 99), One, Frac(1, 2), Frac(3, 4),
              Frac(3, 2)),
      Measure({KeyRL1, KeyRL2, KeySH, KeyHD}, 2, Frac(100, 99), One, Frac(3, 4), Frac(1, 4), One),
      Measure({KeyRL1, KeyCL}, 1, Frac(100, 99), Frac(3, 5), Frac(1, 2), Frac(1, 2), Frac(3, 2)),
      Measure({KeyCL, KeyHS, KeyCS}, 2, Frac(100, 99), One, Frac(3, 4), Frac(1, 4),
              Frac(3, 2)),
      Measure({KeyCL}, 1, Frac(100, 99), One, Frac(3, 4), Frac(1, 2), One),
      Measure({KeyHD}, 1, Frac(100, 99), One, Frac(1, 2), Frac(1, 2), One) }

SegData ==
    {[growth |-> "doubling", base_life |-> Frac(25, 6)],
     [growth |-> "late", base_life |-> Frac(200, 23)]}

VARIABLES
    measures,          \* Engine.measures: the measure objects' input attributes
    segdata,           \* baseline segment data common to all measures
    markets,           \* m.markets[adopt_scheme][comp_scheme] of every measure
    consumer_metrics,  \* m.consumer_metrics of every measure, by year
    update_results,    \* m.update_results of every measure
    savings,           \* m.savings[adopt_scheme][comp_scheme] of every measure
    portfolio_metrics, \* m.portfolio_metrics[adopt_scheme][comp_scheme]
    pc,                \* position of main in its loop over the adoption schemes
    msegs,             \* compete_measures: sorted unique contributing keys
    msu_ind,           \* compete_measures: number of keys of msegs processed
    htcl_adj_data,     \* compete_measures: heating/cooling overlap ledger
    applied,           \* shares and weights last used by compete_adj, per
                       \* measure, key and year (values local to the code)
    call,              \* a single call of a function: arguments and result
    options,           \* command line options; mkt_fracs holds the values the
                       \* option may have given what the run has read of it
    output_ecms,       \* Engine.output_ecms: summary results by measure
    output_all         \* Engine.output_all: summary results across measures

vars ==
    <<measures, segdata, markets, consumer_metrics, update_results, savings,
      portfolio_metrics, pc, msegs, msu_ind, htcl_adj_data, applied, call,
      options, output_ecms, output_all>>

Meas == 1 .. NumMeasures

\* m.yrs_on_mkt: the years from market entry to the end of the horizon.
yrs_on_mkt(m) == {yr \in aeo_years : yr >= measures[m].market_entry_year}

\* m.bldg_type: the building types of the measure's markets.
bldg_type(m) == {k[3] : k \in measures[m].keys}

\* markets[...]["master_mseg"]["lifetime"]["measure"]
lifetime_measure(m) == measures[m].life

\* adj["lifetime"]["baseline"][yr] of a contributing microsegment
lifetime_baseline(k, yr) == segdata.base_life

\* adj["stock"]["total"]["all"][yr]: the units of the baseline segment.
\* Existing stock is constant; new stock accumulates from the first year, or
\* from the second year where construction starts late.
stock_total_all(k, yr) ==
    IF k[1] = "secondary" THEN 0
    ELSE IF InKey("new", k)
         THEN (IF segdata.growth = "late" /\ yr = 1 THEN 0 ELSE 2 ^ yr)
         ELSE 4

\* adj["sub-market scaling"]
sub_market_scaling(m, k) == measures[m].sbmkt

\* "competed choice parameters": b1, b2 and the rate distribution
choice_b1(m, k, yr) == IF k = KeyRL2 THEN R(-60) ELSE R(-20)
choice_b2(m, k, yr) == IF k = KeyRL2 THEN R(-10) ELSE R(-40)
rate_distribution(m, k, yr) ==
    <<Frac(1, 4), Frac(1, 4), Frac(1, 8), Frac(1, 8), Frac(1, 8), Frac(1, 16), Frac(1, 16)>>

\* htcl_totals[cz][bldg][struct][fuel][end use][yr]
htcl_totals(sk, yr) == R(64)

(***************************************************************************)
(* The stock/energy/carbon/cost fields of a master or contributing         *)
(* microsegment, in the order of the lists built by compete_adj_dicts.     *)
(***************************************************************************)
mast_list(x) ==
    << <<"cost", "stock", "total", x>>, <<"cost", "energy", "total", x>>,
       <<"cost", "carbon", "total", x>>, <<"energy", "total", x>>, <<"carbon", "total", x>>,
       <<"cost", "stock", "competed", x>>, <<"cost", "energy", "competed", x>>,
       <<"cost", "carbon", "competed", x>>, <<"energy", "competed", x>>,
       <<"carbon", "competed", x>> >>

StockMeasure(status) == <<"stock", status, "measure">>

Cases == {"baseline", "efficient"}
Fields ==
    {mast_list(x)[i] : x \in Cases, i \in 1 .. 10}
        \cup {StockMeasure("total"), StockMeasure("competed")}

SegEnergy(k) ==
    IF k = KeyRL1 THEN 16 ELSE IF k = KeyRL2 THEN 32 ELSE IF k = KeySH THEN 8
    ELSE IF k = KeyCL THEN 32 ELSE 16

\* relative performance of the measures on a segment, on top of their own
SegPerf(k) == IF k = KeyRL2 THEN Frac(1, 2) ELSE One

\* Initial value of a field of measure m's contributing microsegment k.
InitContrib(m, k, f, yr) ==
    LET a == measures[m]
        eff == RMul(IF yr % 2 = 1 THEN a.eff_odd ELSE a.eff_even, SegPerf(k))
        status == f[Len(f) - 1]
        x == f[Len(f)]
        comp == IF status = "competed" THEN Frac(1, 2) ELSE One
        units == R(stock_total_all(k, yr))
        energy == R(SegEnergy(k))
        base ==
            IF f[1] = "stock"
            THEN (IF f = <<"stock", status, "measure">> /\ yr < a.market_entry_year
                  THEN Zero ELSE units)
            ELSE IF f[1] = "cost" /\ f[2] = "stock"
                 THEN RMul(R(5), IF x = "efficient" THEN RMul(units, a.cap) ELSE units)
            ELSE LET mult == IF f[1] = "energy" THEN 1 ELSE IF f[1] = "carbon" THEN 2
                             ELSE IF f[2] = "energy" THEN 3 ELSE 4
                 IN  RMul(R(mult), IF x = "efficient" THEN RMul(energy, eff) ELSE energy)
    IN  RMul(RMul(base, a.sbmkt), comp)

RECURSIVE RSumOver(_, _)
RSumOver(S, f) ==
    IF S = {} THEN Zero
    ELSE LET x == CHOOSE v \in S : TRUE IN RAdd(f[x], RSumOver(S \ {x}, f))

\* "contributing mseg keys and values" of measure m as read from its input
InitContribs(m) ==
    [k \in measures[m].keys |->
        [f \in Fields |-> [yr \in aeo_years |-> InitContrib(m, k, f, yr)]]]

\* master_mseg: the sum of the contributing microsegments
InitMaster(contrib) ==
    [f \in Fields |->
        [yr \in aeo_years |->
            RSumOver(DOMAIN contrib, [k \in DOMAIN contrib |-> contrib[k][f][yr]])]]

\* master_mseg["stock"]["total"]["all"][yr]
master_stock_total_all(m, yr) ==
    RSumOver(measures[m].keys, [k \in measures[m].keys |-> R(stock_total_all(k, yr))])

Buckets(m) == {Bucket(k) : k \in measures[m].keys}

\* mseg_out_break: the energy of the contributing microsegments by bucket
InitOutBreak(m, contrib) ==
    [which \in {"baseline", "efficient", "savings"} |->
        [b \in Buckets(m) |->
            [yr \in aeo_years |->
                LET ks == {k \in measures[m].keys : Bucket(k) = b}
                    e(x) == RSumOver(ks, [k \in ks |-> contrib[k][<<"energy", "total", x>>][yr]])
                IN  IF which = "savings" THEN RSub(e("baseline"), e("efficient"))
                    ELSE e(which)]]]

SecndNames ==
    {"original energy (total captured)", "original energy (competed and captured)",
     "adjusted energy (total captured)", "adjusted energy (competed and captured)"}

\* "secondary mseg adjustments" -> "market share": one entry per climate zone,
\* building type and structure type of the measure's secondary microsegments
InitSecnd(m) ==
    LET adjkeys == {secnd_mseg_adjkey(k) : k \in {j \in measures[m].keys : j[1] = "secondary"}}
    IN  [n \in SecndNames |-> [ak \in adjkeys |-> [yr \in aeo_years |-> Zero]]]

\* m.markets[adopt_scheme]: the competed markets start as a copy of the
\* uncompeted ones, with the competition data (mseg_adjust) attached
InitMarkets(m) ==
    LET contrib == Eval(InitContribs(m))
        master == Eval(InitMaster(contrib))
        brk == Eval(InitOutBreak(m, contrib))
    IN  [uncompeted |-> [master_mseg |-> master, mseg_out_break |-> brk],
         competed |->
            [master_mseg |-> master, mseg_out_break |-> brk,
             contrib |-> contrib, secnd |-> InitSecnd(m)]]

Schemes == {adopt_schemes[i] : i \in 1 .. Len(adopt_schemes)}

NoShares == [m \in {} |-> 0]

\* unit costs and savings not yet computed
UnitNone ==
    [n \in {"stock_res", "energy_res", "carbon_res", "stock_com", "energy_com", "carbon_com",
            "irr_e", "irr_ec", "payback_e", "payback_ec"} |-> <<>>]
NoPortfolio ==
    [yr \in aeo_years |-> [n \in {"cce", "cce_bens", "ccc", "ccc_bens"} |-> <<>>]]
NoSavings == [i \in 1 .. 10 |-> [yr \in aeo_years |-> <<>>]]

\* no call of a single function
NoCall == [fn |-> "none", args |-> <<>>, done |-> FALSE, result |-> <<>>]

\* output_ecms[m.name] as initialized by the Engine: empty dicts
NoOutput ==
    [overall |-> [s \in Schemes |-> <<>>], by_category |-> [s \in Schemes |-> <<>>],
     portfolio |-> [s \in Schemes |-> <<>>], consumer |-> <<>>]

\* htcl_adj_data = None
NoHtclData == [active |-> FALSE, supply |-> <<>>, demand |-> <<>>]

Init ==
    /\ measures \in [Meas -> Catalog]
    /\ segdata \in SegData
    /\ markets = <<>>
    /\ consumer_metrics = [m \in Meas |-> [yr \in aeo_years |-> UnitNone]]
    /\ update_results =
        [m \in Meas |->
            [savings |-> [s \in Schemes |-> [uncompeted |-> TRUE, competed |-> TRUE]],
             consumer |-> TRUE]]
    /\ savings =
        [m \in Meas |-> [s \in Schemes |-> [uncompeted |-> NoSavings, competed |-> NoSavings]]]
    /\ portfolio_metrics =
        [m \in Meas |->
            [s \in Schemes |-> [uncompeted |-> NoPortfolio, competed |-> NoPortfolio]]]
    /\ pc = [scheme |-> 1, at |-> "load"]
    /\ msegs = <<>>
    /\ msu_ind = 0
    /\ htcl_adj_data = NoHtclData
    /\ applied = NoShares
    /\ call = NoCall
    /\ options = [mkt_fracs |-> BOOLEAN]
    /\ output_ecms = [m \in Meas |-> NoOutput]
    /\ output_all = [s \in Schemes |-> <<>>]

(***************************************************************************)
(* metric_update and payback: the financial metrics of a measure for one   *)
(* year, from per unit costs and savings.                                  *)
(***************************************************************************)
com_timeprefs_rates ==
    <<R(10), R(1), Frac(9, 20), Frac(1, 4), Frac(3, 20), Frac(13, 200), Zero>>

discount_rate == Frac(7, 100)

RECURSIVE RPow(_, _)
RPow(a, n) == IF n = 0 THEN One ELSE RMul(a, RPow(a, n - 1))

\* numpy.npv(rate, values): sum of values[i] / (1 + rate) ** i, i from 0.
RECURSIVE numpy_npv(_, _)
numpy_npv(rate, values) ==
    IF values = <<>> THEN Zero
    ELSE RAdd(Head(values), RDiv(numpy_npv(rate, Tail(values)), RAdd(One, rate)))

\* numpy.irr(values) with its replacement by 999 where it is not finite: a
\* rate that the cash flows determine.  The model keeps the cash flows.
numpy_irr(values) == <<"irr">> \o values

\* x / y on numpy floats: a division by zero yields inf, -inf or nan
NumpyDiv(x, y) ==
    IF y # Zero THEN RDiv(x, y)
    ELSE IF RLt(Zero, x) THEN <<"inf">> ELSE IF RLt(x, Zero) THEN <<"-inf">> ELSE <<"nan">>

\* The element of a singleton set.  In {e(x) : x \in {v}} the value v is
\* computed once, however often e reads x: a local variable of the code.
TheOne(S) == CHOOSE v \in S : TRUE

\* the running totals of the cash flows: cumulative.  The totals of the two
\* halves are joined, which keeps the depth of the evaluation small.
RECURSIVE Cumulative(_)
Cumulative(flows) ==
    IF Len(flows) <= 1 THEN flows
    ELSE LET h == Len(flows) \div 2
             join(left, right) ==
                 left \o [i \in 1 .. Len(right) |-> RAdd(left[h], right[i])]
         IN  TheOne({join(l, r) : l \in {Cumulative(SubSeq(flows, 1, h))},
                                  r \in {Cumulative(SubSeq(flows, h + 1, Len(flows)))}})

\* list(cashflows[1:]) + [cashflows[-1]] * (100 - len(cashflows[1:]))
payback_flows(cashflows) ==
    Tail(cashflows) \o
        [i \in 1 .. (100 - Len(Tail(cashflows))) |-> cashflows[Len(cashflows)]]

\* Engine.payback: simple payback period of a sequence of cash flows
payback(cashflows) ==
    LET payback_val(investment, cumulative, years) ==
            LET b == IF years = 0 THEN investment
                     ELSE RSub(investment, cumulative[years])
                c == IF years = 0 THEN cumulative[1]
                     ELSE RSub(cumulative[years + 1], cumulative[years])
            IN  IF years < Len(cumulative)
                THEN (IF c = Zero THEN NumpyDiv(b, c) ELSE RAdd(R(years), RDiv(b, c)))
                ELSE R(999)
        count(investment, cumulative) ==
            TheOne({payback_val(investment, cumulative, years) :
                      years \in {Cardinality({i \in 1 .. Len(cumulative) :
                                                 RLt(cumulative[i], investment)})}})
        total(cf) ==
            IF ~RLt(cf[1], Zero) THEN Zero
            ELSE TheOne({count(RAbs(cf[1]), cumulative) :
                           cumulative \in {Cumulative(payback_flows(cf))}})
    IN  TheOne({total(cf) : cf \in {cashflows}})

\* m.end_use["primary"], m.technology_type["primary"], m.measure_type
end_use_primary(m) == {k[5] : k \in {j \in measures[m].keys : j[1] = "primary"}}
technology_type_primary(m) ==
    IF \E k \in measures[m].keys : k[1] = "primary" /\ InKey("demand", k)
    THEN "demand" ELSE "supply"
measure_type(m) == "full service"

\* added_stockcost_gain_yrs that also counts the last year of the measure life
added_stockcost_gain_yrs_to_end(m, life_base, life_meas) ==
    IF /\ life_meas > life_base
       /\ "lighting" \in end_use_primary(m)
       /\ measure_type(m) = "full service"
       /\ technology_type_primary(m) = "supply"
    THEN {i - 1 : i \in {j \in 1 .. life_meas : j % life_base = 0}}
    ELSE {}

\* Years of the measure life in which a baseline lighting purchase is avoided.
added_stockcost_gain_yrs(m, life_base, life_meas) ==
    IF /\ life_meas > life_base
       /\ "lighting" \in end_use_primary(m)
       /\ measure_type(m) = "full service"
       /\ technology_type_primary(m) = "supply"
    THEN {i - 1 : i \in {j \in 1 .. life_meas - 1 : j % life_base = 0}}
    ELSE {}

\* cashflows_s_delt and cashflows_s_tot: the upfront cost scost_meas
\* (incremental or total), then the avoided baseline purchases
cashflows_s_tot(m, life_base, life_meas_in, scost_base, scost_meas) ==
    LET gains == added_stockcost_gain_yrs(m, life_base, life_meas_in)
        life_meas == IF life_meas_in < 1 THEN 1 ELSE life_meas_in
    IN  <<scost_meas>> \o
            [i \in 1 .. life_meas |-> IF (i - 1) \in gains THEN scost_base ELSE Zero]

\* numpy.append(0, [x] * life_meas)
cashflows_tot(life_meas_in, cost_meas) ==
    LET life_meas == IF life_meas_in < 1 THEN 1 ELSE life_meas_in
    IN  <<Zero>> \o [i \in 1 .. life_meas |-> cost_meas]

\* the sum of two numpy arrays of the same length
ArraySum(x, y) == Eval([i \in 1 .. Len(x) |-> RAdd(x[i], y[i])])

\* x / (y * 1000000) for y # 0.  The quotient is kept as the exact rational
\* x / y together with the decimal exponent -6, which keeps the numbers of
\* the model small: <<n, d, "e-6">> is the number (n / d) * 10 ** -6.
PerMillion(x, y) == RDiv(x, y) \o <<"e-6">>

\* portfolio_level_metrics with the benefits of the two costs exchanged
portfolio_level_metrics_swapped(npv_s_delt, npv_e_delt, npv_c_delt, npv_esave, npv_csave) ==
    [cce |-> IF RLt(Zero, npv_esave) THEN RDiv(RNeg(npv_s_delt), npv_esave) ELSE R(999),
     cce_bens |-> IF RLt(Zero, npv_esave)
                  THEN RDiv(RNeg(RAdd(npv_s_delt, npv_e_delt)), npv_esave) ELSE R(999),
     ccc |-> IF RLt(Zero, npv_csave)
             THEN PerMillion(RNeg(npv_s_delt), npv_csave) ELSE R(999),
     ccc_bens |-> IF RLt(Zero, npv_csave)
                  THEN PerMillion(RNeg(RAdd(npv_s_delt, npv_c_delt)), npv_csave)
                  ELSE R(999)]

\* cost of conserved energy and carbon w/ and w/o the other cost benefits
portfolio_level_metrics(npv_s_delt, npv_e_delt, npv_c_delt, npv_esave, npv_csave) ==
    [cce |-> IF RLt(Zero, npv_esave) THEN RDiv(RNeg(npv_s_delt), npv_esave) ELSE R(999),
     cce_bens |-> IF RLt(Zero, npv_esave)
                  THEN RDiv(RNeg(RAdd(npv_s_delt, npv_c_delt)), npv_esave) ELSE R(999),
     ccc |-> IF RLt(Zero, npv_csave)
             THEN PerMillion(RNeg(npv_s_delt), npv_csave) ELSE R(999),
     ccc_bens |-> IF RLt(Zero, npv_csave)
                  THEN PerMillion(RNeg(RAdd(npv_s_delt, npv_e_delt)), npv_csave)
                  ELSE R(999)]

ConsumerNames ==
    {"stock_res", "energy_res", "carbon_res", "stock_com", "energy_com", "carbon_com",
     "irr_e", "irr_ec", "payback_e", "payback_ec"}
PortfolioNames == {"cce", "cce_bens", "ccc", "ccc_bens"}

\* The fourteen metrics returned by metric_update.  The ten consumer level
\* metrics are None (written <<>>) once the measure's consumer metrics are
\* finalized, and the unit costs of a sector the measure does not apply to
\* are None.
metric_update(m, life_base, life_meas, scost_base, scost_meas_delt, esave, ecostsave, csave, ccostsave, scost_meas, ecost_meas, ccost_meas) ==
    LET res == \E b \in bldg_type(m) : b \in ResBldgs
        com == \E b \in bldg_type(m) : b \notin ResBldgs
        cf_s_delt == cashflows_s_tot(m, life_base, life_meas, scost_base, scost_meas_delt)
        cf_e_delt == cashflows_tot(life_meas, ecostsave)
        cf_c_delt == cashflows_tot(life_meas, ccostsave)
        cf_s == cashflows_s_tot(m, life_base, life_meas, scost_base, scost_meas)
        cf_e == cashflows_tot(life_meas, ecost_meas)
        cf_c == cashflows_tot(life_meas, ccost_meas)
        port == portfolio_level_metrics(
                    numpy_npv(discount_rate, cf_s_delt), numpy_npv(discount_rate, cf_e_delt),
                    numpy_npv(discount_rate, cf_c_delt),
                    numpy_npv(discount_rate, cashflows_tot(life_meas, esave)),
                    numpy_npv(discount_rate, cashflows_tot(life_meas, csave)))
        byrate(cf) == [i \in 1 .. Len(com_timeprefs_rates) |->
                          numpy_npv(com_timeprefs_rates[i], cf)]
        cf_se == ArraySum(cf_s_delt, cf_e_delt)
        cf_sec == ArraySum(cf_se, cf_c_delt)
        consumer ==
            IF update_results[m].consumer
            THEN [stock_res |-> IF res THEN scost_meas ELSE <<>>,
                  energy_res |-> IF res THEN ecost_meas ELSE <<>>,
                  carbon_res |-> IF res THEN ccost_meas ELSE <<>>,
                  stock_com |-> IF com THEN byrate(cf_s) ELSE <<>>,
                  energy_com |-> IF com THEN byrate(cf_e) ELSE <<>>,
                  carbon_com |-> IF com THEN byrate(cf_c) ELSE <<>>,
                  irr_e |-> numpy_irr(cf_se), irr_ec |-> numpy_irr(cf_sec),
                  payback_e |-> payback(cf_se), payback_ec |-> payback(cf_sec)]
            ELSE [n \in ConsumerNames |-> <<>>]
    IN  consumer @@ port

Unit999 == [n \in ConsumerNames \cup PortfolioNames |-> R(999)]

(***************************************************************************)
(* calc_savings_metrics(adopt_scheme, comp_scheme)                         *)
\* unit costs that take the sentinel in every year without stock
unit_costs_sentinel_only(m, adopt_scheme, comp_scheme, yr) ==
    LET unc == markets[adopt_scheme][m].uncompeted.master_mseg
        mk == markets[adopt_scheme][m][comp_scheme].master_mseg
        nunits_tot == master_stock_total_all(m, yr)
        nunits_meas == mk[StockMeasure("total")][yr]
        stock_base_cost_tot == unc[<<"cost", "stock", "total", "baseline">>][yr]
        stock_meas_cost_tot == unc[<<"cost", "stock", "total", "efficient">>][yr]
        save_tot(f) == RSub(mk[f \o <<"total", "baseline">>][yr],
                            mk[f \o <<"total", "efficient">>][yr])
        lb == segdata.base_life
        life_base == IF RLt(lb, One) THEN One ELSE lb
        lm == lifetime_measure(m)
        life_meas == IF RLt(lm, One) THEN One ELSE lm
    IN  IF nunits_tot = Zero \/ RLt(nunits_meas, One)
        THEN Unit999
        ELSE metric_update(m, PyRound(life_base), PyRound(life_meas),
                 RDiv(stock_base_cost_tot, nunits_tot),
                 RDiv(RSub(stock_base_cost_tot, stock_meas_cost_tot), nunits_tot),
                 RDiv(save_tot(<<"energy">>), nunits_tot),
                 RDiv(save_tot(<<"cost", "energy">>), nunits_tot),
                 RDiv(save_tot(<<"carbon">>), nunits_tot),
                 RDiv(save_tot(<<"cost", "carbon">>), nunits_tot),
                 RDiv(mk[<<"cost", "stock", "total", "efficient">>][yr], nunits_tot),
                 RDiv(mk[<<"cost", "energy", "total", "efficient">>][yr], nunits_tot),
                 RDiv(mk[<<"cost", "carbon", "total", "efficient">>][yr], nunits_tot))

(***************************************************************************)
\* The metrics of measure m in each year, from the markets of the given
\* schemes; a year without applicable or captured stock takes the sentinel
\* in the first year and the previous year's values afterwards.
RECURSIVE unit_costs(_, _, _, _)
unit_costs(m, adopt_scheme, comp_scheme, yr) ==
    LET unc == markets[adopt_scheme][m].uncompeted.master_mseg
        mk == markets[adopt_scheme][m][comp_scheme].master_mseg
        nunits_tot == master_stock_total_all(m, yr)
        nunits_meas == mk[StockMeasure("total")][yr]
        stock_base_cost_tot == unc[<<"cost", "stock", "total", "baseline">>][yr]
        stock_meas_cost_tot == unc[<<"cost", "stock", "total", "efficient">>][yr]
        save_tot(f) == RSub(mk[f \o <<"total", "baseline">>][yr],
                            mk[f \o <<"total", "efficient">>][yr])
        lb == segdata.base_life
        life_base == IF RLt(lb, One) THEN One ELSE lb
        lm == lifetime_measure(m)
        life_meas == IF RLt(lm, One) THEN One ELSE lm
    IN  IF nunits_tot = Zero \/ RLt(nunits_meas, One)
        THEN (IF yr = 1 THEN Unit999 ELSE unit_costs(m, adopt_scheme, comp_scheme, yr - 1))
        ELSE metric_update(m, PyRound(life_base), PyRound(life_meas),
                 RDiv(stock_base_cost_tot, nunits_tot),
                 RDiv(RSub(stock_base_cost_tot, stock_meas_cost_tot), nunits_tot),
                 RDiv(save_tot(<<"energy">>), nunits_tot),
                 RDiv(save_tot(<<"cost", "energy">>), nunits_tot),
                 RDiv(save_tot(<<"carbon">>), nunits_tot),
                 RDiv(save_tot(<<"cost", "carbon">>), nunits_tot),
                 RDiv(mk[<<"cost", "stock", "total", "efficient">>][yr], nunits_tot),
                 RDiv(mk[<<"cost", "energy", "total", "efficient">>][yr], nunits_tot),
                 RDiv(mk[<<"cost", "carbon", "total", "efficient">>][yr], nunits_tot))

\* savings taken from the uncompeted markets whatever the competition scheme
savings_of_uncompeted(m, adopt_scheme, comp_scheme) ==
    LET mk == markets[adopt_scheme][m].uncompeted.master_mseg
    IN  [i \in 1 .. 10 |->
            [yr \in aeo_years |->
                RSub(mk[mast_list("baseline")[i]][yr], mk[mast_list("efficient")[i]][yr])]]

\* m.savings[adopt_scheme][comp_scheme]: total and annual savings by field.
savings_of(m, adopt_scheme, comp_scheme) ==
    LET mk == markets[adopt_scheme][m][comp_scheme].master_mseg
    IN  [i \in 1 .. 10 |->
            [yr \in aeo_years |->
                RSub(mk[mast_list("baseline")[i]][yr], mk[mast_list("efficient")[i]][yr])]]

\* calc_savings_metrics that writes the consumer metrics at every call
calc_savings_metrics_rewriting(adopt_scheme, comp_scheme) ==
    \E measures_update \in
           {{m \in Meas : update_results[m].savings[adopt_scheme][comp_scheme]}} :
    \E metrics \in
           {[m \in measures_update |->
                [yr \in aeo_years |-> unit_costs(m, adopt_scheme, comp_scheme, yr)]]} :
        /\ savings' =
            [m \in Meas |->
                IF m \in measures_update
                THEN [savings[m] EXCEPT ![adopt_scheme][comp_scheme] =
                         savings_of(m, adopt_scheme, comp_scheme)]
                ELSE savings[m]]
        /\ portfolio_metrics' =
            [m \in Meas |->
                IF m \in measures_update
                THEN [portfolio_metrics[m] EXCEPT ![adopt_scheme][comp_scheme] =
                         [yr \in aeo_years |-> [n \in PortfolioNames |-> metrics[m][yr][n]]]]
                ELSE portfolio_metrics[m]]
        /\ consumer_metrics' =
            [m \in Meas |->
                IF m \in measures_update
                THEN [yr \in aeo_years |-> [n \in ConsumerNames |-> metrics[m][yr][n]]]
                ELSE consumer_metrics[m]]
        /\ update_results' =
            [m \in Meas |->
                IF m \in measures_update
                THEN [savings |-> [update_results[m].savings EXCEPT
                                      ![adopt_scheme][comp_scheme] = FALSE],
                      consumer |-> FALSE]
                ELSE update_results[m]]

\* calc_savings_metrics that updates every measure whatever its flag
calc_savings_metrics_unflagged(adopt_scheme, comp_scheme) ==
    \E measures_update \in
           {Meas} :
    \E metrics \in
           {[m \in measures_update |->
                [yr \in aeo_years |-> unit_costs(m, adopt_scheme, comp_scheme, yr)]]} :
        /\ savings' =
            [m \in Meas |->
                IF m \in measures_update
                THEN [savings[m] EXCEPT ![adopt_scheme][comp_scheme] =
                         savings_of(m, adopt_scheme, comp_scheme)]
                ELSE savings[m]]
        /\ portfolio_metrics' =
            [m \in Meas |->
                IF m \in measures_update
                THEN [portfolio_metrics[m] EXCEPT ![adopt_scheme][comp_scheme] =
                         [yr \in aeo_years |-> [n \in PortfolioNames |-> metrics[m][yr][n]]]]
                ELSE portfolio_metrics[m]]
        /\ consumer_metrics' =
            [m \in Meas |->
                IF m \in measures_update /\ update_results[m].consumer
                THEN [yr \in aeo_years |-> [n \in ConsumerNames |-> metrics[m][yr][n]]]
                ELSE consumer_metrics[m]]
        /\ update_results' =
            [m \in Meas |->
                IF m \in measures_update
                THEN [savings |-> [update_results[m].savings EXCEPT
                                      ![adopt_scheme][comp_scheme] = FALSE],
                      consumer |-> FALSE]
                ELSE update_results[m]]

calc_savings_metrics(adopt_scheme, comp_scheme) ==
    \E measures_update \in
           {{m \in Meas : update_results[m].savings[adopt_scheme][comp_scheme]}} :
    \E metrics \in
           {[m \in measures_update |->
                [yr \in aeo_years |-> unit_costs(m, adopt_scheme, comp_scheme, yr)]]} :
        /\ savings' =
            [m \in Meas |->
                IF m \in measures_update
                THEN [savings[m] EXCEPT ![adopt_scheme][comp_scheme] =
                         savings_of(m, adopt_scheme, comp_scheme)]
                ELSE savings[m]]
        /\ portfolio_metrics' =
            [m \in Meas |->
                IF m \in measures_update
                THEN [portfolio_metrics[m] EXCEPT ![adopt_scheme][comp_scheme] =
                         [yr \in aeo_years |-> [n \in PortfolioNames |-> metrics[m][yr][n]]]]
                ELSE portfolio_metrics[m]]
        /\ consumer_metrics' =
            [m \in Meas |->
                IF m \in measures_update /\ update_results[m].consumer
                THEN [yr \in aeo_years |-> [n \in ConsumerNames |-> metrics[m][yr][n]]]
                ELSE consumer_metrics[m]]
        /\ update_results' =
            [m \in Meas |->
                IF m \in measures_update
                THEN [savings |-> [update_results[m].savings EXCEPT
                                      ![adopt_scheme][comp_scheme] = FALSE],
                      consumer |-> FALSE]
                ELSE update_results[m]]

(***************************************************************************)
(* Raw market shares of the measures competing for a primary key.          *)
(* measures_adj is the sequence of competing measures in Engine.measures   *)
(* order; shares are sequences of functions year -> share.                 *)
(***************************************************************************)
measures_adj(msu) == SortedSeq({m \in Meas : msu \in measures[m].keys})

years_on_mkt_all(ms) == SortedSeq(UNION {yrs_on_mkt(ms[i]) : i \in 1 .. Len(ms)})

mkt_entry_yrs(ms) == {measures[ms[i]].market_entry_year : i \in 1 .. Len(ms)}

\* numpy.exp on the range the engine uses it on: a positive, non-decreasing
\* step function, 2 ** floor(x / 100), that underflows to 0 like the float.
numpy_exp(x) ==
    LET e == RFloor(RDiv(x, R(100)))
    IN  IF e < -7 THEN Zero ELSE IF e >= 0 THEN R(2 ^ e) ELSE Frac(1, 2 ^ (-e))

\* exp of the weighted sum of capital and operating cost, guarded at -500
res_weight(m, msu, yr) ==
    LET cap_cost == consumer_metrics[m][yr].stock_res
        op_cost == consumer_metrics[m][yr].energy_res
        sum_wt == RAdd(RMul(cap_cost, choice_b1(m, msu, yr)),
                       RMul(op_cost, choice_b2(m, msu, yr)))
    IN  numpy_exp(IF RLt(sum_wt, R(-500)) THEN R(-500) ELSE sum_wt)

OnMkt(ms, yr) == {i \in 1 .. Len(ms) : yr \in yrs_on_mkt(ms[i])}

res_mkt_fracs_over_all(ms, msu) ==
    [ind \in 1 .. Len(ms) |->
        [yr \in aeo_years |->
            IF yr \in yrs_on_mkt(ms[ind])
            THEN RDiv(res_weight(ms[ind], msu, yr),
                      RSumSeq([i \in 1 .. Len(ms) |-> res_weight(ms[i], msu, yr)]))
            ELSE IF OnMkt(ms, yr) = {} THEN Frac(1, Len(ms))
            ELSE Zero]]

res_mkt_fracs(ms, msu) ==
    [ind \in 1 .. Len(ms) |->
        [yr \in aeo_years |->
            IF yr \in yrs_on_mkt(ms[ind])
            THEN RDiv(res_weight(ms[ind], msu, yr),
                      RSumOver(OnMkt(ms, yr),
                               [i \in OnMkt(ms, yr) |-> res_weight(ms[i], msu, yr)]))
            ELSE IF OnMkt(ms, yr) = {} THEN Frac(1, Len(ms))
            ELSE Zero]]

\* total life cycle cost of a measure under each discount rate category
tot_cost(m, yr) ==
    LET cap_cost == consumer_metrics[m][yr].stock_com
        op_cost == consumer_metrics[m][yr].energy_com
    IN  [dr \in 1 .. Len(com_timeprefs_rates) |-> RAdd(cap_cost[dr], op_cost[dr])]

com_bin_frac_unsplit(ms, msu, ind, yr, dr) ==
    LET costs == [x \in OnMkt(ms, yr) |-> tot_cost(ms[x], yr)[dr]]
    IN  IF \A x \in OnMkt(ms, yr) : RLe(costs[ind], costs[x])
        THEN rate_distribution(ms[ind], msu, yr)[dr]
        ELSE Zero

com_bin_frac(ms, msu, ind, yr, dr) ==
    LET costs == [x \in OnMkt(ms, yr) |-> tot_cost(ms[x], yr)[dr]]
        min_val == CHOOSE v \in {costs[x] : x \in OnMkt(ms, yr)} :
                       \A x \in OnMkt(ms, yr) : RLe(v, costs[x])
        min_val_ecms == {x \in OnMkt(ms, yr) : costs[x] = min_val}
    IN  IF costs[ind] = min_val
        THEN RDiv(rate_distribution(ms[ind], msu, yr)[dr], R(Cardinality(min_val_ecms)))
        ELSE Zero

com_mkt_fracs(ms, msu) ==
    [ind \in 1 .. Len(ms) |->
        [yr \in aeo_years |->
            IF yr \in yrs_on_mkt(ms[ind])
            THEN RSumSeq([dr \in 1 .. Len(com_timeprefs_rates) |->
                             com_bin_frac(ms, msu, ind, yr, dr)])
            ELSE IF OnMkt(ms, yr) = {} THEN Frac(1, Len(ms))
            ELSE Zero]]

\* find_added_sbmkt_fracs with the uncaptured shares split among all the
\* competitors where none of them applies to the whole segment
find_added_sbmkt_fracs_to_all(mkt_fracs, ms, msu) ==
    LET n == Len(ms)
        noapply == [i \in 1 .. n |-> RSub(One, sub_market_scaling(ms[i], msu))]
        full == {i \in 1 .. n : noapply[i] = Zero}
        distrib_inds == IF full = {} THEN 1 .. n ELSE full
        weights(yr) ==
            IF \A x \in distrib_inds : mkt_fracs[x][yr] = Zero
            THEN [mc \in 1 .. n |->
                     IF mc \in distrib_inds THEN Frac(1, Cardinality(distrib_inds)) ELSE Zero]
            ELSE LET raw == [mc \in 1 .. n |->
                                IF mc \in distrib_inds THEN mkt_fracs[mc][yr] ELSE Zero]
                     tot == RSumSeq(raw)
                 IN  IF tot # Zero THEN [mc \in 1 .. n |-> RDiv(raw[mc], tot)]
                     ELSE [mc \in 1 .. n |-> Zero]
    IN  IF \A i \in 1 .. n : noapply[i] = Zero
        THEN [mn \in 1 .. n |-> [yr \in aeo_years |-> Zero]]
        ELSE [mn \in 1 .. n |->
                 [yr \in aeo_years |->
                     RSumSeq([m \in 1 .. n |->
                                 RMul(RMul(noapply[m], mkt_fracs[m][yr]), weights(yr)[mn])])]]

\* find_added_sbmkt_fracs with the uncaptured shares split evenly among the
\* measures that apply to the whole segment, whatever their raw shares
find_added_sbmkt_fracs_evenly(mkt_fracs, ms, msu) ==
    LET n == Len(ms)
        noapply == [i \in 1 .. n |-> RSub(One, sub_market_scaling(ms[i], msu))]
        distrib_inds == {i \in 1 .. n : noapply[i] = Zero}
        weights(yr) ==
            [mc \in 1 .. n |->
                IF mc \in distrib_inds THEN Frac(1, Cardinality(distrib_inds)) ELSE Zero]
    IN  IF \A i \in 1 .. n : noapply[i] = Zero
        THEN [mn \in 1 .. n |-> [yr \in aeo_years |-> Zero]]
        ELSE [mn \in 1 .. n |->
                 [yr \in aeo_years |->
                     RSumSeq([m \in 1 .. n |->
                                 RMul(RMul(noapply[m], mkt_fracs[m][yr]), weights(yr)[mn])])]]

(***************************************************************************)
(* find_added_sbmkt_fracs                                                  *)
(***************************************************************************)
find_added_sbmkt_fracs(mkt_fracs, ms, msu) ==
    LET n == Len(ms)
        noapply == [i \in 1 .. n |-> RSub(One, sub_market_scaling(ms[i], msu))]
        distrib_inds == {i \in 1 .. n : noapply[i] = Zero}
        weights(yr) ==
            IF \A x \in distrib_inds : mkt_fracs[x][yr] = Zero
            THEN [mc \in 1 .. n |->
                     IF mc \in distrib_inds THEN Frac(1, Cardinality(distrib_inds)) ELSE Zero]
            ELSE LET raw == [mc \in 1 .. n |->
                                IF mc \in distrib_inds THEN mkt_fracs[mc][yr] ELSE Zero]
                     tot == RSumSeq(raw)
                 IN  IF tot # Zero THEN [mc \in 1 .. n |-> RDiv(raw[mc], tot)]
                     ELSE [mc \in 1 .. n |-> Zero]
    IN  IF \A i \in 1 .. n : noapply[i] = Zero
        THEN [mn \in 1 .. n |-> [yr \in aeo_years |-> Zero]]
        ELSE [mn \in 1 .. n |->
                 [yr \in aeo_years |->
                     RSumSeq([m \in 1 .. n |->
                                 RMul(RMul(noapply[m], mkt_fracs[m][yr]), weights(yr)[mn])])]]

(***************************************************************************)
(* Stock turnover rates (compete_res_primary / compete_com_primary).       *)
(***************************************************************************)
\* lifetime of the competing measures weighted by their market shares
eff_life(mkt_fracs, ms, yr) ==
    RSumSeq([i \in 1 .. Len(ms) |-> RMul(lifetime_measure(ms[i]), mkt_fracs[i][yr])])

\* Position (from 1) in years_on_mkt_all at which the stock captured in the
\* year at position ind1 turns over.
future_eff_turnover_yr(mkt_fracs, ms, ind1) ==
    ind1 + PyInt(eff_life(mkt_fracs, ms, years_on_mkt_all(ms)[ind1]))

\* ECM turnover rate by year: 1 / weighted lifetime + retrofit rate in the
\* year the stock turns over (the last year written wins), 0 elsewhere.
eff_turnover_rt(mkt_fracs, ms) ==
    LET yrs == years_on_mkt_all(ms)
    IN  [yr \in aeo_years |->
            LET srcs == {ind1 \in 1 .. Len(yrs) :
                            /\ future_eff_turnover_yr(mkt_fracs, ms, ind1) <= Len(yrs)
                            /\ yrs[future_eff_turnover_yr(mkt_fracs, ms, ind1)] = yr}
            IN  IF srcs = {} THEN Zero
                ELSE LET last == CHOOSE i \in srcs : \A j \in srcs : j <= i
                     IN  RAdd(RInv(eff_life(mkt_fracs, ms, yrs[last])), retro_rate)]

\* The same schedule for weighted lifetimes given by year: point values ...
eff_turnover_rt_point(life, yrs) ==
    [yr \in aeo_years |->
        LET future(ind1) == ind1 + PyInt(life[yrs[ind1]])
            srcs == {ind1 \in 1 .. Len(yrs) :
                        future(ind1) <= Len(yrs) /\ yrs[future(ind1)] = yr}
        IN  IF srcs = {} THEN Zero
            ELSE LET last == CHOOSE i \in srcs : \A j \in srcs : j <= i
                 IN  RAdd(RInv(life[yrs[last]]), retro_rate)]

\* ... and arrays of samples, each sample with a schedule of its own
eff_turnover_rt_array(life, yrs) ==
    [yr \in aeo_years |->
        [i \in 1 .. Len(life[yr]) |->
            LET future(ind1) == ind1 + PyInt(life[yrs[ind1]][i]) + 1
                srcs == {ind1 \in 1 .. Len(yrs) :
                            future(ind1) <= Len(yrs) /\ yrs[future(ind1)] = yr}
            IN  IF srcs = {} THEN Zero
                ELSE LET last == CHOOSE k \in srcs : \A j \in srcs : j <= k
                     IN  RAdd(RInv(life[yrs[last]][i]), retro_rate)]]

\* new stock segments: total new stock by year (first measure's data)
new_stock_tot(ms, msu, yr) == R(stock_total_all(msu, yr))

new_stock_base_endyr(ms, msu) ==
    RAdd(R(MinOfSet(mkt_entry_yrs(ms))),
         RMul(R(2), lifetime_baseline(msu, MinOfSet(mkt_entry_yrs(ms)))))

new_stock_add_frac(ms, msu, yr) ==
    IF yr = 1 THEN One
    ELSE IF new_stock_tot(ms, msu, yr) # Zero
         THEN RDiv(RSub(new_stock_tot(ms, msu, yr), new_stock_tot(ms, msu, yr - 1)),
                   new_stock_tot(ms, msu, yr))
         ELSE Zero

new_stock_base_frac(ms, msu, yr) ==
    IF /\ yr # 1
       /\ new_stock_tot(ms, msu, yr) # Zero
       /\ RLt(R(yr), new_stock_base_endyr(ms, msu))
       /\ MinOfSet(mkt_entry_yrs(ms)) # 1
    THEN RDiv(new_stock_tot(ms, msu, MinOfSet(mkt_entry_yrs(ms)) - 1),
              new_stock_tot(ms, msu, yr))
    ELSE Zero

\* round(adj["lifetime"]["baseline"][yr])
base_life(msu, yr) == PyRound(lifetime_baseline(msu, yr))

\* Baseline turnover rate by year for one measure's contributing microsegment.
base_turnover_rt(ms, msu) ==
    [yr \in aeo_years |->
        LET srcs == {y \in aeo_years : y + base_life(msu, y) = yr}
        IN  IF InKey("new", msu)
            THEN RAdd(new_stock_add_frac(ms, msu, yr),
                      RSumOver(srcs,
                          [y \in srcs |->
                              RMul(RAdd(Frac(1, base_life(msu, y)), retro_rate),
                                   new_stock_base_frac(ms, msu, yr))]))
            ELSE IF srcs = {}
                 THEN RAdd(RInv(lifetime_baseline(msu, yr)), retro_rate)
                 ELSE LET last == CHOOSE y \in srcs : \A j \in srcs : j <= y
                      IN  RAdd(Frac(1, base_life(msu, last)), retro_rate)]

(***************************************************************************)
(* compete_adj: competed and weighted total market share of one measure.   *)
(***************************************************************************)
RMin(a, b) == IF RLt(a, b) THEN a ELSE b

\* market share weight of year wyr, given the previously captured efficient
\* fraction and the remaining baseline fraction
wt_comp(msu, wyr, base_rt, eff_rt, eff_frac_map, base_frac_map) ==
    IF InKey("new", msu) THEN RAdd(base_rt[wyr], eff_rt[wyr])
    ELSE RAdd(RMin(base_rt[wyr], base_frac_map), RMul(eff_rt[wyr], eff_frac_map))

RECURSIVE WeightingInEveryScheme(_, _, _, _, _, _, _)
WeightingInEveryScheme(fracs, msu, adopt_scheme, first, wyr, base_rt, eff_rt) ==
    IF wyr = first
    THEN [tot |-> fracs[wyr], eff_frac_map |-> Zero, base_frac_map |-> One, wt |-> <<>>]
    ELSE LET p == WeightingInEveryScheme(fracs, msu, adopt_scheme, first, wyr - 1,
                                         base_rt, eff_rt)
             w == wt_comp(msu, wyr, base_rt, eff_rt, p.eff_frac_map, p.base_frac_map)
         IN  [tot |-> RAdd(RMul(RSub(One, w), p.tot), RMul(w, fracs[wyr])),
              eff_frac_map |-> p.eff_frac_map, base_frac_map |-> p.base_frac_map,
              wt |-> w]

\* The moving average over the weighting years from the first market entry
\* year to wyr: weighted share, captured efficient fraction, remaining
\* baseline fraction and the weight used last.
RECURSIVE Weighting(_, _, _, _, _, _, _)
Weighting(fracs, msu, adopt_scheme, first, wyr, base_rt, eff_rt) ==
    IF wyr = first \/ adopt_scheme = "Technical potential"
    THEN [tot |-> fracs[wyr], eff_frac_map |-> Zero, base_frac_map |-> One, wt |-> <<>>]
    ELSE LET p == Weighting(fracs, msu, adopt_scheme, first, wyr - 1, base_rt, eff_rt)
             w == wt_comp(msu, wyr, base_rt, eff_rt, p.eff_frac_map, p.base_frac_map)
             capped == ~RLt(RAdd(p.eff_frac_map, base_rt[wyr]), One)
         IN  [tot |-> RAdd(RMul(RSub(One, w), p.tot), RMul(w, fracs[wyr])),
              eff_frac_map |->
                  IF InKey("new", msu) THEN p.eff_frac_map
                  ELSE IF capped THEN One ELSE RAdd(p.eff_frac_map, base_rt[wyr]),
              base_frac_map |->
                  IF InKey("new", msu) THEN p.base_frac_map
                  ELSE IF capped THEN Zero
                  ELSE RSub(One, RAdd(p.eff_frac_map, base_rt[wyr])),
              wt |-> w]

\* adj_frac_tot before the cap at 1
adj_frac_tot_uncapped(fracs, msu, adopt_scheme, entry_yrs, yr, base_rt, eff_rt) ==
    IF yr < MinOfSet(entry_yrs) THEN fracs[yr]
    ELSE Weighting(fracs, msu, adopt_scheme,
                   IF MinOfSet(entry_yrs) < 1 THEN 1 ELSE MinOfSet(entry_yrs),
                   yr, base_rt, eff_rt).tot

CapAtOne(x) == IF RLt(One, x) THEN One ELSE x

adj_frac_tot(fracs, msu, adopt_scheme, entry_yrs, yr, base_rt, eff_rt) ==
    CapAtOne(adj_frac_tot_uncapped(fracs, msu, adopt_scheme, entry_yrs, yr, base_rt, eff_rt))

(***************************************************************************)
(* compete_adj: the adjustment of one measure's competed markets for the   *)
(* primary key msu, given its competed share comp[yr] and weighted total   *)
(* share tot[yr] of every year.                                            *)
(***************************************************************************)
mast_adjusted_by_share(x, y, adj_frac) == RSub(x, RMul(y, adj_frac))

\* x[yr] - (y[yr] * (1 - adj_frac)): the master value after the adjustment
mast_adjusted(x, y, adj_frac) == RSub(x, RMul(y, RSub(One, adj_frac)))

\* x[yr] * adj_frac: the contributing value after the adjustment
adj_adjusted(x, adj_frac) == RMul(x, adj_frac)

\* the 'total' or 'competed' status of a field
FieldStatus(f) == f[Len(f) - 1]

\* mastlist[1:5] and mastlist[6:]: the energy and carbon (cost) fields
EnergyCarbonFields == {f \in Fields : f[1] # "stock" /\ ~(f[1] = "cost" /\ f[2] = "stock")}

brk_adjusted_one_frac(brk, adj, msu, frac_base, frac_eff) ==
    LET b == Bucket(msu)
        base(yr) == adj[<<"energy", "total", "baseline">>][yr]
        eff(yr) == adj[<<"energy", "total", "efficient">>][yr]
        less(which, yr) ==
            IF which = "baseline" THEN RMul(base(yr), RSub(One, frac_base[yr]))
            ELSE IF which = "efficient" THEN RMul(eff(yr), RSub(One, frac_base[yr]))
            ELSE RSub(RMul(base(yr), RSub(One, frac_base[yr])),
                      RMul(eff(yr), RSub(One, frac_eff[yr])))
    IN  [which \in DOMAIN brk |->
            [brk[which] EXCEPT ![b] = [yr \in aeo_years |-> RSub(@[yr], less(which, yr))]]]

\* breakout of the key's bucket less the removed baseline/efficient/savings
brk_adjusted(brk, adj, msu, frac_base, frac_eff) ==
    LET b == Bucket(msu)
        base(yr) == adj[<<"energy", "total", "baseline">>][yr]
        eff(yr) == adj[<<"energy", "total", "efficient">>][yr]
        less(which, yr) ==
            IF which = "baseline" THEN RMul(base(yr), RSub(One, frac_base[yr]))
            ELSE IF which = "efficient" THEN RMul(eff(yr), RSub(One, frac_eff[yr]))
            ELSE RSub(RMul(base(yr), RSub(One, frac_base[yr])),
                      RMul(eff(yr), RSub(One, frac_eff[yr])))
    IN  [which \in DOMAIN brk |->
            [brk[which] EXCEPT ![b] = [yr \in aeo_years |-> RSub(@[yr], less(which, yr))]]]

\* "secondary mseg adjustments"/"market share" after the primary key msu
secnd_recorded(secnd, adj, msu, tot, comp) ==
    LET ak == secnd_mseg_adjkey(msu)
        e_tot(yr) == adj[<<"energy", "total", "efficient">>][yr]
        e_comp(yr) == adj[<<"energy", "competed", "efficient">>][yr]
        add(n, yr) ==
            IF n = "original energy (total captured)" THEN e_tot(yr)
            ELSE IF n = "original energy (competed and captured)" THEN e_comp(yr)
            ELSE IF n = "adjusted energy (total captured)" THEN RMul(e_tot(yr), tot[yr])
            ELSE RMul(e_comp(yr), comp[yr])
    IN  IF ak \in DOMAIN secnd["original energy (total captured)"]
        THEN [n \in SecndNames |->
                 [secnd[n] EXCEPT ![ak] = [yr \in aeo_years |-> RAdd(@[yr], add(n, yr))]]]
        ELSE secnd

compete_adj(mk, msu, tot, comp) ==
    LET adj == mk.contrib[msu]
        frac(f, yr) == IF FieldStatus(f) = "total" THEN tot[yr] ELSE comp[yr]
    IN  [master_mseg |->
            [f \in Fields |->
                [yr \in aeo_years |->
                    mast_adjusted(mk.master_mseg[f][yr], adj[f][yr], frac(f, yr))]],
         mseg_out_break |-> brk_adjusted(mk.mseg_out_break, adj, msu, tot, tot),
         contrib |->
            [mk.contrib EXCEPT ![msu] =
                [f \in Fields |-> [yr \in aeo_years |-> adj_adjusted(adj[f][yr], frac(f, yr))]]],
         secnd |-> secnd_recorded(mk.secnd, adj, msu, tot, comp)]

(***************************************************************************)
(* secondary_adj: one measure's secondary key msu                          *)
(***************************************************************************)
\* adjusted / original captured energy of the year, 0 without original
secnd_adj_frac(secnd, ak, which, yr) ==
    LET orig == secnd["original energy (" \o which \o ")"][ak][yr]
        adjd == secnd["adjusted energy (" \o which \o ")"][ak][yr]
    IN  IF orig # Zero THEN RDiv(adjd, orig) ELSE Zero

secondary_adj(mk, msu) ==
    LET adj == mk.contrib[msu]
        ak == secnd_mseg_adjkey(msu)
        tot == Eval([yr \in aeo_years |->
                        secnd_adj_frac(mk.secnd, ak, "total captured", yr)])
        comp == Eval([yr \in aeo_years |->
                         secnd_adj_frac(mk.secnd, ak, "competed and captured", yr)])
        frac(f, yr) == IF FieldStatus(f) = "total" THEN tot[yr] ELSE comp[yr]
    IN  [mk EXCEPT
            !.master_mseg =
                [f \in Fields |->
                    IF f \in EnergyCarbonFields
                    THEN [yr \in aeo_years |->
                             mast_adjusted(mk.master_mseg[f][yr], adj[f][yr], frac(f, yr))]
                    ELSE mk.master_mseg[f]],
            !.mseg_out_break = brk_adjusted(mk.mseg_out_break, adj, msu, tot, tot),
            !.contrib[msu] =
                [f \in Fields |->
                    IF f \in EnergyCarbonFields
                    THEN [yr \in aeo_years |-> adj_adjusted(adj[f][yr], frac(f, yr))]
                    ELSE adj[f]]]

(***************************************************************************)
(* htcl_adj_rec and htcl_adj: overlaps between supply-side and demand-side *)
(* heating/cooling microsegments.                                          *)
(***************************************************************************)
IsHtclKey(k) == InKey("primary", k) /\ (InKey("supply", k) \/ InKey("demand", k))

EnergySum(msu_mkts, x, yr) ==
    RSumOver(DOMAIN msu_mkts, [m \in DOMAIN msu_mkts |-> msu_mkts[m][<<"energy", "total", x>>][yr]])

\* msu_mkts: the contributing data of key msu of every measure that has it
htcl_adj_rec(data, msu, msu_mkts) ==
    LET sk == msu_split_key(msu)
        tt == tech_typ(msu)
        affected == [yr \in aeo_years |-> EnergySum(msu_mkts, "baseline", yr)]
        saved == [yr \in aeo_years |->
                       RSub(EnergySum(msu_mkts, "baseline", yr),
                            EnergySum(msu_mkts, "efficient", yr))]
    IN  IF sk \notin DOMAIN data[tt]
        THEN [data EXCEPT ![tt] = @ @@ (sk :>
                 [total |-> [yr \in aeo_years |-> htcl_totals(sk, yr)],
                  total_affected |-> affected, affected_savings |-> saved])]
        ELSE [data EXCEPT
                 ![tt][sk].total_affected = [yr \in aeo_years |-> RAdd(@[yr], affected[yr])],
                 ![tt][sk].affected_savings = [yr \in aeo_years |-> RAdd(@[yr], saved[yr])]]

rel_perf(d, yr) ==
    IF d.total_affected[yr] # Zero
    THEN RSub(One, RDiv(d.affected_savings[yr], d.total_affected[yr]))
    ELSE One

\* save_ratio that is 1 where neither side deviates
save_ratio_default_one(tech_data, overlp_data, yr) ==
    LET a == RAbs(RSub(One, rel_perf(tech_data, yr)))
        b == RAbs(RSub(One, rel_perf(overlp_data, yr)))
    IN  IF RAdd(a, b) # Zero THEN RDiv(a, RAdd(a, b)) ELSE One

save_ratio(tech_data, overlp_data, yr) ==
    LET a == RAbs(RSub(One, rel_perf(tech_data, yr)))
        b == RAbs(RSub(One, rel_perf(overlp_data, yr)))
    IN  IF RAdd(a, b) # Zero THEN RDiv(a, RAdd(a, b)) ELSE Frac(1, 2)

affected_frac(overlp_data, yr) ==
    IF overlp_data.total[yr] # Zero
    THEN RDiv(overlp_data.total_affected[yr], overlp_data.total[yr])
    ELSE Zero

adj_frac_base(tech_data, overlp_data, yr) ==
    RAdd(RSub(One, affected_frac(overlp_data, yr)),
         RMul(affected_frac(overlp_data, yr), save_ratio(tech_data, overlp_data, yr)))

adj_frac_eff(tech_data, overlp_data, yr) ==
    RAdd(RSub(One, affected_frac(overlp_data, yr)),
         RMul(RMul(affected_frac(overlp_data, yr), save_ratio(tech_data, overlp_data, yr)),
              rel_perf(overlp_data, yr)))

\* htcl_adj_key that, for a key without data of the overlapping side, takes
\* the data of the key's own side as the overlap
htcl_adj_key_own_side(mk, mseg, data) ==
    LET sk == msu_split_key(mseg)
        tt == IF InKey("supply", mseg) THEN "supply" ELSE "demand"
        ov == IF InKey("supply", mseg) THEN "demand" ELSE "supply"
        overlp == IF sk \in DOMAIN data[ov] THEN data[ov][sk] ELSE data[tt][sk]
        adj == mk.contrib[mseg]
        fb == Eval([yr \in aeo_years |-> adj_frac_base(data[tt][sk], overlp, yr)])
        fe == Eval([yr \in aeo_years |-> adj_frac_eff(data[tt][sk], overlp, yr)])
    IN  IF sk \notin DOMAIN data[tt] THEN mk
        ELSE [mk EXCEPT
                 !.master_mseg =
                     [f \in Fields |->
                         IF f \in EnergyCarbonFields
                         THEN [yr \in aeo_years |->
                                  mast_adjusted(mk.master_mseg[f][yr], adj[f][yr],
                                      IF f[Len(f)] = "baseline" THEN fb[yr] ELSE fe[yr])]
                         ELSE mk.master_mseg[f]],
                 !.mseg_out_break = brk_adjusted(mk.mseg_out_break, adj, mseg, fb, fe)]

\* an adjustment that scales the stock fields of the master along with the rest
htcl_adj_key_with_stock(mk, mseg, data) ==
    LET sk == msu_split_key(mseg)
        tt == IF InKey("supply", mseg) THEN "supply" ELSE "demand"
        ov == IF InKey("supply", mseg) THEN "demand" ELSE "supply"
        adj == mk.contrib[mseg]
        fb == Eval([yr \in aeo_years |-> adj_frac_base(data[tt][sk], data[ov][sk], yr)])
        fe == Eval([yr \in aeo_years |-> adj_frac_eff(data[tt][sk], data[ov][sk], yr)])
    IN  IF sk \notin DOMAIN data[tt] \/ sk \notin DOMAIN data[ov] THEN mk
        ELSE [mk EXCEPT
                 !.master_mseg =
                     [f \in Fields |->
                         IF f \in Fields
                         THEN [yr \in aeo_years |->
                                  mast_adjusted(mk.master_mseg[f][yr], adj[f][yr],
                                      IF f[Len(f)] = "baseline" THEN fb[yr] ELSE fe[yr])]
                         ELSE mk.master_mseg[f]],
                 !.mseg_out_break = brk_adjusted(mk.mseg_out_break, adj, mseg, fb, fe)]

\* the adjustment of one measure's markets for its heating/cooling key mseg
htcl_adj_key(mk, mseg, data) ==
    LET sk == msu_split_key(mseg)
        tt == IF InKey("supply", mseg) THEN "supply" ELSE "demand"
        ov == IF InKey("supply", mseg) THEN "demand" ELSE "supply"
        adj == mk.contrib[mseg]
        fb == Eval([yr \in aeo_years |-> adj_frac_base(data[tt][sk], data[ov][sk], yr)])
        fe == Eval([yr \in aeo_years |-> adj_frac_eff(data[tt][sk], data[ov][sk], yr)])
    IN  IF sk \notin DOMAIN data[tt] \/ sk \notin DOMAIN data[ov] THEN mk
        ELSE [mk EXCEPT
                 !.master_mseg =
                     [f \in Fields |->
                         IF f \in EnergyCarbonFields
                         THEN [yr \in aeo_years |->
                                  mast_adjusted(mk.master_mseg[f][yr], adj[f][yr],
                                      IF f[Len(f)] = "baseline" THEN fb[yr] ELSE fe[yr])]
                         ELSE mk.master_mseg[f]],
                 !.mseg_out_break = brk_adjusted(mk.mseg_out_break, adj, mseg, fb, fe)]

RECURSIVE htcl_adj_keys(_, _, _)
htcl_adj_keys(mk, keys, data) ==
    IF keys = <<>> THEN mk
    ELSE htcl_adj_keys(Eval(htcl_adj_key(mk, Head(keys), data)), Tail(keys), data)

\* m.end_use: the end uses of the measure's primary and secondary keys
end_use(m, typ) ==
    LET eus == {k[5] : k \in {j \in measures[m].keys : j[1] = typ}}
        RECURSIVE Ordered(_)
        Ordered(S) ==
            IF S = {} THEN <<>>
            ELSE LET x == CHOOSE e \in S : \A o \in S : StrRank(e) <= StrRank(o)
                 IN  <<x>> \o Ordered(S \ {x})
    IN  IF eus = {} THEN <<>> ELSE Ordered(eus)

measures_htcl_adj ==
    {m \in Meas :
        \E typ \in {"primary", "secondary"} :
            /\ end_use(m, typ) # <<>>
            /\ end_use(m, typ)[1] \in {"heating", "cooling", "secondary heating"}}

htcl_adj(mks, data) ==
    [m \in Meas |->
        IF m \in measures_htcl_adj
        THEN htcl_adj_keys(mks[m], SortKeys({k \in measures[m].keys : IsHtclKey(k)}), data)
        ELSE mks[m]]

(***************************************************************************)
(* The shares compete_res_primary / compete_com_primary hand to            *)
(* compete_adj for every competing measure and year, from the raw shares.  *)
(***************************************************************************)
Shares(ms, msu, adopt_scheme, mkt_fracs) ==
    LET added == Eval(find_added_sbmkt_fracs(mkt_fracs, ms, msu))
        eff_rt == Eval(eff_turnover_rt(mkt_fracs, ms))
        base_rt == Eval(base_turnover_rt(ms, msu))
        entry == mkt_entry_yrs(ms)
    IN  [ind \in 1 .. Len(ms) |->
            LET fracs == Eval([yr \in aeo_years |->
                                  RAdd(mkt_fracs[ind][yr], added[ind][yr])])
            IN  [raw |-> mkt_fracs[ind],
                 added |-> added[ind],
                 comp |-> fracs,
                 unc |-> [yr \in aeo_years |->
                             adj_frac_tot_uncapped(fracs, msu, adopt_scheme, entry, yr,
                                                   base_rt, eff_rt)],
                 tot |-> [yr \in aeo_years |->
                             adj_frac_tot(fracs, msu, adopt_scheme, entry, yr, base_rt, eff_rt)],
                 wt |-> [yr \in aeo_years |->
                            IF yr < MinOfSet(entry) THEN <<>>
                            ELSE Weighting(fracs, msu, adopt_scheme, MinOfSet(entry), yr,
                                           base_rt, eff_rt).wt]]]

PosIn(ms, m) == CHOOSE i \in 1 .. Len(ms) : ms[i] = m
InSeq(ms, m) == \E i \in 1 .. Len(ms) : ms[i] = m

(***************************************************************************)
(* main: for each adoption scheme, calc_savings_metrics (uncompeted),      *)
(* compete_measures, calc_savings_metrics (competed), finalize_outputs.    *)
(***************************************************************************)
adopt_scheme == adopt_schemes[pc.scheme]

\* main builds the Measure objects from the input data (Measure.__init__
\* restores each measure's markets) and then the Engine
LoadMeasures ==
    /\ pc.at = "load"
    /\ markets' = LET mk == Eval([m \in Meas |-> InitMarkets(m)]) IN [s \in Schemes |-> mk]
    /\ pc' = [pc EXCEPT !.at = "uncompeted"]
    /\ UNCHANGED <<options, output_ecms, output_all, call, measures,
                   segdata, consumer_metrics, update_results, savings,
                   portfolio_metrics, msegs,
                   msu_ind, htcl_adj_data, applied>>

CalcUncompeted ==
    /\ pc.at = "uncompeted"
    /\ calc_savings_metrics(adopt_scheme, "uncompeted")
    /\ pc' = [pc EXCEPT !.at = "compete"]
    /\ UNCHANGED <<options, output_ecms, output_all, call, measures,
                   segdata, markets, msegs, msu_ind, htcl_adj_data, applied>>

\* compete_measures up to its loop over the keys
CompeteStart ==
    /\ pc.at = "compete"
    /\ msegs' = SortKeys(UNION {measures[m].keys : m \in Meas})
    /\ msu_ind' = 0
    /\ htcl_adj_data' =
        IF /\ \E i \in 1 .. Len(msegs') : InKey("supply", msegs'[i])
           /\ \E i \in 1 .. Len(msegs') : InKey("demand", msegs'[i])
        THEN [active |-> TRUE, supply |-> <<>>, demand |-> <<>>]
        ELSE NoHtclData
    /\ applied' = NoShares
    /\ pc' = [pc EXCEPT !.at = "keys"]
    /\ UNCHANGED <<options, output_ecms, output_all, call, measures,
                   segdata, markets, consumer_metrics, update_results, savings,
                   portfolio_metrics>>

\* the end of one pass of the loop over the keys: htcl_adj_rec
KeyDone(msu) ==
    /\ htcl_adj_data' =
        IF IsHtclKey(msu) /\ htcl_adj_data.active
        THEN htcl_adj_rec(htcl_adj_data, msu,
                 [m \in {x \in Meas : msu \in measures[x].keys} |->
                     markets'[adopt_scheme][m].competed.contrib[msu]])
        ELSE htcl_adj_data
    /\ msu_ind' = msu_ind + 1
    /\ UNCHANGED <<options, output_ecms, output_all, call, measures,
                   segdata, consumer_metrics, update_results, savings,
                   portfolio_metrics, pc,
                   msegs>>

AtKey == pc.at = "keys" /\ msu_ind < Len(msegs)
msu_now == msegs[msu_ind + 1]

\* a competition on markets whose uncompeted master is the competed one
CompetePrimary_aliased(ms, msu, mkt_fracs) ==
    LET sh == Eval(Shares(ms, msu, adopt_scheme, Eval(mkt_fracs)))
    IN  /\ markets' =
            Eval([markets EXCEPT ![adopt_scheme] =
                [m \in Meas |->
                    IF InSeq(ms, m)
                    THEN LET new == compete_adj(@[m].competed, msu, sh[PosIn(ms, m)].tot,
                                                sh[PosIn(ms, m)].comp)
                         IN  [@[m] EXCEPT !.competed = new,
                                          !.uncompeted.master_mseg = new.master_mseg]
                    ELSE @[m]]])
        /\ applied' = [key |-> msu, scheme |-> adopt_scheme, ms |-> ms, shares |-> sh]

CompetePrimary(ms, msu, mkt_fracs) ==
    LET sh == Eval(Shares(ms, msu, adopt_scheme, Eval(mkt_fracs)))
    IN  /\ markets' =
            Eval([markets EXCEPT ![adopt_scheme] =
                [m \in Meas |->
                    IF InSeq(ms, m)
                    THEN [@[m] EXCEPT !.competed =
                             compete_adj(@, msu, sh[PosIn(ms, m)].tot, sh[PosIn(ms, m)].comp)]
                    ELSE @[m]]])
        /\ applied' = [key |-> msu, scheme |-> adopt_scheme, ms |-> ms, shares |-> sh]

CompeteResPrimary ==
    /\ AtKey
    /\ InKey("primary", msu_now) /\ Len(measures_adj(msu_now)) > 1 /\ IsResKey(msu_now)
    /\ CompetePrimary(measures_adj(msu_now), msu_now,
                      res_mkt_fracs(measures_adj(msu_now), msu_now))
    /\ KeyDone(msu_now)

\* cap_cost.keys() of a unit cost that is the number 999 and not a dict of
\* costs by discount rate: AttributeError
tot_cost_raises(ms) ==
    \E ind \in 1 .. Len(ms) : \E yr \in yrs_on_mkt(ms[ind]) :
        Len(consumer_metrics[ms[ind]][yr].stock_com) # Len(com_timeprefs_rates)

\* compete_com_primary that raises while it sums the costs of the measures
CompeteComPrimaryRaises ==
    /\ AtKey
    /\ InKey("primary", msu_now) /\ Len(measures_adj(msu_now)) > 1 /\ ~IsResKey(msu_now)
    /\ tot_cost_raises(measures_adj(msu_now))
    /\ pc' = [pc EXCEPT !.at = "AttributeError"]
    /\ UNCHANGED <<options, output_ecms, output_all, call, measures,
                   segdata, markets, consumer_metrics, update_results, savings,
                   portfolio_metrics, msegs, msu_ind, htcl_adj_data, applied>>

CompeteComPrimary ==
    /\ AtKey
    /\ InKey("primary", msu_now) /\ Len(measures_adj(msu_now)) > 1 /\ ~IsResKey(msu_now)
    /\ ~tot_cost_raises(measures_adj(msu_now))
    /\ CompetePrimary(measures_adj(msu_now), msu_now,
                      com_mkt_fracs(measures_adj(msu_now), msu_now))
    /\ KeyDone(msu_now)

\* a primary key held by one measure only, competed like any other key
PrimaryUncontestedCompeted ==
    /\ AtKey
    /\ InKey("primary", msu_now) /\ Len(measures_adj(msu_now)) <= 1
    /\ IsResKey(msu_now) \/ ~tot_cost_raises(measures_adj(msu_now))
    /\ CompetePrimary(measures_adj(msu_now), msu_now,
                      IF IsResKey(msu_now) THEN res_mkt_fracs(measures_adj(msu_now), msu_now)
                      ELSE com_mkt_fracs(measures_adj(msu_now), msu_now))
    /\ KeyDone(msu_now)

\* a primary key held by one measure only: no market share adjustment
PrimaryUncontested ==
    /\ AtKey
    /\ InKey("primary", msu_now) /\ Len(measures_adj(msu_now)) <= 1
    /\ UNCHANGED <<markets, applied>>
    /\ KeyDone(msu_now)

measures_adj_scnd(msu) ==
    {m \in Meas :
        /\ msu \in measures[m].keys
        /\ \E yr \in aeo_years :
               RLt(Zero, markets[adopt_scheme][m].competed.secnd[
                             "original energy (total captured)"][secnd_mseg_adjkey(msu)][yr])}

SecondaryAdj ==
    /\ AtKey
    /\ ~InKey("primary", msu_now) /\ InKey("secondary", msu_now)
    /\ measures_adj_scnd(msu_now) # {}
    /\ markets' =
        Eval([markets EXCEPT ![adopt_scheme] =
            [m \in Meas |->
                IF m \in measures_adj_scnd(msu_now)
                THEN [@[m] EXCEPT !.competed = secondary_adj(@, msu_now)]
                ELSE @[m]]])
    /\ UNCHANGED applied
    /\ KeyDone(msu_now)

SecondarySkip ==
    /\ AtKey
    /\ ~InKey("primary", msu_now) /\ InKey("secondary", msu_now)
    /\ measures_adj_scnd(msu_now) = {}
    /\ UNCHANGED <<markets, applied>>
    /\ KeyDone(msu_now)

\* compete_measures after its loop over the keys
HtclAdj ==
    /\ pc.at = "keys" /\ msu_ind = Len(msegs)
    /\ htcl_adj_data.active
    /\ markets' =
        [markets EXCEPT ![adopt_scheme] =
            LET mks == [m \in Meas |-> @[m].competed]
                new == htcl_adj(mks, htcl_adj_data)
            IN  [m \in Meas |-> [@[m] EXCEPT !.competed = new[m]]]]
    /\ pc' = [pc EXCEPT !.at = "competed"]
    /\ UNCHANGED <<options, output_ecms, output_all, call, measures,
                   segdata, consumer_metrics, update_results, savings,
                   portfolio_metrics, msegs,
                   msu_ind, htcl_adj_data, applied>>

CompeteEnd ==
    /\ pc.at = "keys" /\ msu_ind = Len(msegs)
    /\ ~htcl_adj_data.active
    /\ pc' = [pc EXCEPT !.at = "competed"]
    /\ UNCHANGED <<options, output_ecms, output_all, call, measures,
                   segdata, markets, consumer_metrics, update_results, savings,
                   portfolio_metrics, msegs, msu_ind, htcl_adj_data, applied>>

CalcCompeted ==
    /\ pc.at = "competed"
    /\ calc_savings_metrics(adopt_scheme, "competed")
    /\ pc' = [pc EXCEPT !.at = "finalize"]
    /\ UNCHANGED <<options, output_ecms, output_all, call, measures,
                   segdata, markets, msegs, msu_ind, htcl_adj_data, applied>>

(***************************************************************************)
(* finalize_outputs(adopt_scheme): the summary outputs of the measures.    *)
(* All values of the model are point values, for which numpy.mean and the  *)
(* percentiles return the value itself and no low/high estimate is         *)
(* written.                                                                *)
(***************************************************************************)
\* The labels of the twelve market and savings outputs, in the order of
\* summary_vals.
SummaryLabels ==
    <<"Baseline Energy Use (MMBtu)", "Baseline CO2 Emissions (MMTons)",
      "Baseline Energy Cost (USD)", "Baseline CO2 Cost (USD)",
      "Efficient Energy Use (MMBtu)", "Efficient CO2 Emissions (MMTons)",
      "Efficient Energy Cost (USD)", "Efficient CO2 Cost (USD)",
      "Energy Savings (MMBtu)", "Energy Cost Savings (USD)",
      "Avoided CO2 Emissions (MMTons)", "CO2 Cost Savings (USD)">>

\* summary_vals[0:12]: competed markets and savings of measure m
summary_vals(m, scheme) ==
    LET mkts == markets[scheme][m].competed.master_mseg
        save == savings[m][scheme].competed
        x(v) == IF v <= 4 THEN "baseline" ELSE "efficient"
        f(v) == IF v % 4 = 1 THEN <<"energy", "total", x(v)>>
                ELSE IF v % 4 = 2 THEN <<"carbon", "total", x(v)>>
                ELSE IF v % 4 = 3 THEN <<"cost", "energy", "total", x(v)>>
                ELSE <<"cost", "carbon", "total", x(v)>>
    IN  [v \in 1 .. 12 |->
            IF v <= 8 THEN mkts[f(v)]
            ELSE IF v = 9 THEN save[4] ELSE IF v = 10 THEN save[2]
            ELSE IF v = 11 THEN save[5] ELSE save[3]]

\* out_break_walk: the terminal values of adjust_dict multiplied by those of
\* adjust_vals, or divided by them (0 where the divisor is 0).
out_break_walk(adjust_dict, adjust_vals, divide) ==
    [b \in DOMAIN adjust_dict |->
        [yr \in aeo_years |->
            IF ~divide THEN RMul(adjust_dict[b][yr], adjust_vals[yr])
            ELSE IF adjust_vals[yr] # Zero THEN RDiv(adjust_dict[b][yr], adjust_vals[yr])
            ELSE Zero]]

\* frac_base, frac_eff and frac_save: the breakouts of the competed markets
\* normalized by the measure's energy totals.  out_break_walk returns the
\* dict it was given, so these are the measure's mseg_out_break itself.
out_break_fracs(m, scheme) ==
    LET brk == markets[scheme][m].competed.mseg_out_break
        energy_base_avg == summary_vals(m, scheme)[1]
        energy_eff_avg == summary_vals(m, scheme)[5]
        norm_save == [yr \in aeo_years |-> RSub(energy_base_avg[yr], energy_eff_avg[yr])]
    IN  [baseline |-> out_break_walk(brk.baseline, energy_base_avg, TRUE),
         efficient |-> out_break_walk(brk.efficient, energy_eff_avg, TRUE),
         savings |-> out_break_walk(brk.savings, norm_save, TRUE)]

\* round(x * 100, 1)
round_pct(x) == Frac(PyRound(RMul(x, R(1000))), 10)

\* mkt_fracs: the measure's competed stock over the stock it can affect.  A
\* numpy float divided by zero gives nan or inf.
stock_penetration(m, scheme) ==
    [yr \in aeo_years |->
        LET meas == markets[scheme][m].competed.master_mseg[StockMeasure("total")][yr]
            all == master_stock_total_all(m, yr)
        IN  IF all # Zero THEN round_pct(RDiv(meas, all))
            ELSE IF meas = Zero THEN <<"nan">> ELSE <<"inf">>]

\* output_ecms[m.name] after the loop body of measure m; the stock
\* penetration is written last, where asked for.
output_ecm(m, scheme, with_fracs) ==
    LET vals == summary_vals(m, scheme)
        frac == out_break_fracs(m, scheme)
        which(v) == IF v <= 4 THEN "baseline" ELSE IF v <= 8 THEN "efficient" ELSE "savings"
        overall == [n \in {SummaryLabels[v] : v \in 1 .. 12} |->
                       vals[CHOOSE v \in 1 .. 12 : SummaryLabels[v] = n]]
        pen == stock_penetration(m, scheme)
        penetration ==
            IF ~with_fracs THEN <<>>
            ELSE IF \E yr \in aeo_years : pen[yr] = <<"nan">>
            THEN [n \in {"Stock Penetration (%)", "Stock Penetration (low) (%)",
                         "Stock Penetration (high) (%)"} |-> pen]
            ELSE [n \in {"Stock Penetration (%)"} |-> pen]
        uc == portfolio_metrics[m][scheme].uncompeted
        c == portfolio_metrics[m][scheme].competed
    IN  [output_ecms[m] EXCEPT
            !.overall[scheme] = overall @@ penetration,
            !.by_category[scheme] =
                [n \in DOMAIN overall |->
                    LET v == CHOOSE w \in 1 .. 12 : SummaryLabels[w] = n
                    IN  out_break_walk(frac[which(v)], overall[n], FALSE)],
            !.portfolio[scheme] =
                [cce_uc |-> [yr \in aeo_years |-> uc[yr].cce],
                 ccc_uc |-> [yr \in aeo_years |-> uc[yr].ccc],
                 cce |-> [yr \in aeo_years |-> c[yr].cce],
                 ccc |-> [yr \in aeo_years |-> c[yr].ccc]],
            !.consumer =
                [irr |-> [yr \in aeo_years |-> consumer_metrics[m][yr].irr_e],
                 payback |-> [yr \in aeo_years |-> consumer_metrics[m][yr].payback_e]]]

\* output_all["All ECMs"]["Markets and Savings (Overall)"][adopt_scheme]
output_all_ecms(scheme) ==
    [n \in {SummaryLabels[v] : v \in 1 .. 12} |->
        [yr \in aeo_years |->
            LET v == CHOOSE w \in 1 .. 12 : SummaryLabels[w] = n
            IN  RSumOver(Meas, [m \in Meas |-> summary_vals(m, scheme)[v][yr]])]]

\* The measures whose stock penetration divides by a zero total stock.  The
\* division raises where the measure's stock is the Python number read from
\* the input, that is where no competition has adjusted it; an adjusted
\* stock is a Python or a numpy float depending on the shares applied.
ZeroStockTotal == {m \in Meas : \E yr \in aeo_years : master_stock_total_all(m, yr) = Zero}

StockAsRead(m) ==
    \A k \in measures[m].keys : ~(InKey("primary", k) /\ Len(measures_adj(k)) > 1)

\* the state of the measures and outputs once the loop has handled the
\* measures up to and including last, with the stock penetration of those
\* before pen_end
finalized(scheme, last, pen_end) ==
    /\ output_ecms' =
        [m \in Meas |->
            IF m <= last THEN output_ecm(m, scheme, m < pen_end) ELSE output_ecms[m]]
    /\ markets' =
        [markets EXCEPT ![scheme] =
            [m \in Meas |->
                IF m <= last
                THEN [@[m] EXCEPT !.competed.mseg_out_break = out_break_fracs(m, scheme)]
                ELSE @[m]]]

FinalizeOutputs ==
    /\ pc.at = "finalize"
    /\ \E mkt_fracs \in options.mkt_fracs :
          /\ mkt_fracs => \A m \in ZeroStockTotal : ~StockAsRead(m)
          /\ options' = [options EXCEPT !.mkt_fracs = {mkt_fracs}]
          /\ finalized(adopt_scheme, NumMeasures, IF mkt_fracs THEN NumMeasures + 1 ELSE 0)
    /\ output_all' = [output_all EXCEPT ![adopt_scheme] = output_all_ecms(adopt_scheme)]
    /\ pc' = IF pc.scheme < Len(adopt_schemes)
             THEN [scheme |-> pc.scheme + 1, at |-> "uncompeted"]
             ELSE [pc EXCEPT !.at = "done"]
    /\ UNCHANGED <<call, measures, segdata, consumer_metrics, update_results, savings,
                   portfolio_metrics, msegs, msu_ind, htcl_adj_data, applied>>

\* The stock penetration of measure m divides by a total stock of zero and
\* raises; the measures before it have all their outputs, the measure itself
\* all but the stock penetration, and the totals across measures are not
\* written.
FinalizeOutputsRaises ==
    /\ pc.at = "finalize"
    /\ TRUE \in options.mkt_fracs
    /\ \E m \in ZeroStockTotal :
          /\ \A x \in ZeroStockTotal : StockAsRead(x) => m <= x
          /\ finalized(adopt_scheme, m, m)
    /\ options' = [options EXCEPT !.mkt_fracs = {TRUE}]
    /\ pc' = [pc EXCEPT !.at = "ZeroDivisionError"]
    /\ UNCHANGED <<call, measures, segdata, consumer_metrics, update_results, savings,
                   portfolio_metrics, msegs, msu_ind, htcl_adj_data, applied, output_all>>

Next ==
    \/ LoadMeasures
    \/ CalcUncompeted
    \/ CompeteStart
    \/ CompeteResPrimary
    \/ CompeteComPrimary
    \/ CompeteComPrimaryRaises
    \/ PrimaryUncontested
    \/ SecondaryAdj
    \/ SecondarySkip
    \/ HtclAdj
    \/ CompeteEnd
    \/ CalcCompeted
    \/ FinalizeOutputs
    \/ FinalizeOutputsRaises

Spec == Init /\ [][Next]_vars

(***************************************************************************)
(* A client of the Engine that, between the steps of main, may call        *)
(* calc_savings_metrics again for the adoption scheme at hand.             *)
(***************************************************************************)
Recalc ==
    /\ pc.at \in {"compete", "finalize"}
    /\ \E comp_scheme \in {"uncompeted", "competed"} :
          calc_savings_metrics(adopt_scheme, comp_scheme)
    /\ UNCHANGED <<pc, options, output_ecms, output_all, call, measures, segdata, markets,
                   msegs, msu_ind, htcl_adj_data, applied>>

NextRepeat ==
    \/ Next
    \/ Recalc

SpecRepeat == Init /\ [][NextRepeat]_vars

(***************************************************************************)
(* Single calls of the engine's functions on arguments of their own:       *)
(* find_added_sbmkt_fracs, payback, metric_update and the savings ratio of *)
(* htcl_adj.  A behaviour starts with the arguments of one call and makes  *)
(* the call.                                                               *)
(***************************************************************************)
Competitors == 1 .. NumCompetitors

\* measures that apply to a whole segment or to a part of it
CallCatalog ==
    { Measure({KeyRL1}, 1, Frac(100, 99), One, Frac(1, 2), Frac(1, 2), One),
      Measure({KeyRL1}, 1, Frac(100, 99), Frac(3, 5), Frac(1, 2), Frac(1, 2), One),
      Measure({KeyCL}, 1, Frac(100, 99), Frac(1, 2), Frac(1, 2), Frac(1, 2), One) }

\* Raw market shares of the competitors in each year: weights of 0, 1 or 2,
\* not all 0, divided by their sum, taken in a different order each year.
RawShares ==
    {[i \in Competitors |->
         [yr \in aeo_years |->
             Frac(w[((i + yr) % NumCompetitors) + 1],
                  RSumSeq([j \in Competitors |-> R(w[j])])[1])]] :
       w \in {v \in [Competitors -> 0 .. 2] : \E j \in Competitors : v[j] # 0}}

\* an investment of 1000 that the first year returns; the second year loses
\* 900 of it, and the hundredth year brings 1
EarlyReturn == <<R(-1000), R(1000), R(-900)>> \o [i \in 1 .. 97 |-> Zero] \o <<One>>

\* cash flows of one to MaxFlows years, those of the docstring's example and
\* a sequence of a hundred years
FlowValues == {-400, -4, -1, 0, 1, 3}
Cashflows ==
    {<<R(-100), R(50), R(50), R(50)>>, EarlyReturn} \cup
    UNION {{[i \in 1 .. n |-> R(f[i])] : f \in [1 .. n -> FlowValues]} : n \in 1 .. MaxFlows}

\* lifetimes in years and per unit costs and savings
MetricInputs ==
    {<<1, life_base, life_meas, R(2), scost_meas_delt, esave, ecostsave, csave, ccostsave,
       R(5), R(4), R(1)>> :
       life_base \in 1 .. 2, life_meas \in 1 .. 3, scost_meas_delt \in {R(-3), R(1)},
       esave \in {R(-1), Zero, R(2)}, ecostsave \in {R(-1), R(3)}, csave \in {Zero, R(1)},
       ccostsave \in {R(-2), R(1)}}

\* lighting measures and measures of other equipment or of the envelope
MetricCatalog ==
    CallCatalog \cup
    { Measure({KeyHS}, 1, Frac(100, 99), One, Frac(1, 2), Frac(1, 2), One),
      Measure({KeyRL1, KeyHD}, 1, Frac(100, 99), One, Frac(1, 2), Frac(1, 2), One) }

\* lifetimes in whole years (not below 1), unit stock cost of the baseline
\* and upfront incremental cost of the measure
CashflowInputs ==
    {<<1, life_base, life_meas, R(2), R(-3)>> :
       life_base \in 1 .. MaxLife - 1, life_meas \in 1 .. MaxLife}

\* the ledger entries of the two sides of a heating/cooling segment
LedgerEntries ==
    {[total |-> [yr \in aeo_years |-> R(64)],
      total_affected |-> [yr \in aeo_years |-> R(t)],
      affected_savings |-> [yr \in aeo_years |-> IF yr % 2 = 1 THEN R(s) ELSE Zero]] :
       t \in {0, 8, 16}, s \in {-4, 0, 2, 4, 8}}

\* weighted lifetimes of the competing measures: two samples by year, and
\* the first year in which one of the measures is on the market
LifeValues == {Frac(1, 2), One, R(2)}
NumSamples == 2
TurnoverInputs ==
    {<<life, entry>> :
        life \in [aeo_years -> [1 .. NumSamples -> LifeValues]], entry \in aeo_years}

Pending(fn, args) == [fn |-> fn, args |-> args, done |-> FALSE, result |-> <<>>]

CallInputs ==
    {Pending("find_added_sbmkt_fracs", <<mkt_fracs, [i \in Competitors |-> i], KeyRL1>>) :
       mkt_fracs \in RawShares}
    \cup {Pending("payback", <<cashflows>>) : cashflows \in Cashflows}
    \cup {Pending("metric_update", args) : args \in MetricInputs}
    \cup {Pending("cashflows_s_delt", args) : args \in CashflowInputs}
    \cup {Pending("eff_turnover_rt", args) : args \in TurnoverInputs}
    \cup {Pending("save_ratio", <<tech_data, overlp_data>>) :
            tech_data \in LedgerEntries, overlp_data \in LedgerEntries}

InitCalls ==
    /\ call \in CallInputs
    /\ measures \in
        IF call.fn = "find_added_sbmkt_fracs" THEN [Competitors -> CallCatalog]
        ELSE IF call.fn = "metric_update"
             THEN {[m \in Competitors |-> c] : c \in CallCatalog}
        ELSE IF call.fn = "cashflows_s_delt"
             THEN {[m \in Competitors |-> c] : c \in MetricCatalog}
        ELSE {[m \in Competitors |-> CHOOSE c \in CallCatalog : TRUE]}
    /\ segdata = CHOOSE d \in SegData : TRUE
    /\ markets = <<>>
    /\ consumer_metrics = [m \in Competitors |-> [yr \in aeo_years |-> UnitNone]]
    /\ update_results =
        [m \in Competitors |->
            [savings |-> [s \in Schemes |-> [uncompeted |-> TRUE, competed |-> TRUE]],
             consumer |-> TRUE]]
    /\ savings = <<>>
    /\ portfolio_metrics = <<>>
    /\ pc = [scheme |-> 1, at |-> "call"]
    /\ msegs = <<>>
    /\ msu_ind = 0
    /\ htcl_adj_data = NoHtclData
    /\ applied = NoShares
    /\ options = [mkt_fracs |-> {FALSE}]
    /\ output_ecms = <<>>
    /\ output_all = <<>>

Return(result) ==
    /\ call' = [call EXCEPT !.done = TRUE, !.result = result]
    /\ UNCHANGED <<options, output_ecms, output_all, measures, segdata, markets,
                   consumer_metrics, update_results, savings,
                   portfolio_metrics, pc, msegs, msu_ind, htcl_adj_data, applied>>

CallFindAddedSbmktFracs ==
    /\ call.fn = "find_added_sbmkt_fracs" /\ ~call.done
    /\ Return(find_added_sbmkt_fracs(call.args[1], call.args[2], call.args[3]))

CallPayback ==
    /\ call.fn = "payback" /\ ~call.done
    /\ Return(payback(call.args[1]))

CallMetricUpdate ==
    /\ call.fn = "metric_update" /\ ~call.done
    /\ Return(metric_update(call.args[1], call.args[2], call.args[3], call.args[4],
                            call.args[5], call.args[6], call.args[7], call.args[8],
                            call.args[9], call.args[10], call.args[11], call.args[12]))

\* the capital cost cash flows that metric_update constructs
CallCashflows ==
    /\ call.fn = "cashflows_s_delt" /\ ~call.done
    /\ Return(cashflows_s_tot(call.args[1], call.args[2], call.args[3], call.args[4],
                              call.args[5]))

\* the turnover schedule of an array of weighted lifetimes, and the
\* schedules of the point values of each of its samples
CallEffTurnoverRt ==
    /\ call.fn = "eff_turnover_rt" /\ ~call.done
    /\ \E yrs \in {[p \in 1 .. NumYears - call.args[2] + 1 |-> call.args[2] + p - 1]} :
          Return([array |-> eff_turnover_rt_array(call.args[1], yrs),
                  point |-> [i \in 1 .. NumSamples |->
                                eff_turnover_rt_point(
                                    [yr \in aeo_years |-> call.args[1][yr][i]], yrs)]])

CallSaveRatio ==
    /\ call.fn = "save_ratio" /\ ~call.done
    /\ Return([yr \in aeo_years |->
                  [tech |-> save_ratio(call.args[1], call.args[2], yr),
                   overlp |-> save_ratio(call.args[2], call.args[1], yr)]])

NextCalls ==
    \/ CallFindAddedSbmktFracs
    \/ CallPayback
    \/ CallMetricUpdate
    \/ CallCashflows
    \/ CallEffTurnoverRt
    \/ CallSaveRatio

SpecCalls == InitCalls /\ [][NextCalls]_vars

(***************************************************************************)
(* Properties.                                                             *)
(***************************************************************************)
\* the competed markets of measure m under the scheme being run
Competed(m) == markets[adopt_scheme][m].competed

\* a step of compete_res_primary / compete_com_primary on the current key
PrimaryCompeted ==
    /\ AtKey
    /\ InKey("primary", msu_now) /\ Len(measures_adj(msu_now)) > 1
    /\ msu_ind' = msu_ind + 1

\* the state right after the loop pass that competed a primary key
JustCompeted ==
    /\ pc.at = "keys" /\ msu_ind > 0
    /\ InKey("primary", msegs[msu_ind]) /\ Len(measures_adj(msegs[msu_ind])) > 1

\* the share of the field's status ('total' or 'competed')
ShareOf(sh, f, yr) == IF FieldStatus(f) = "total" THEN sh.tot[yr] ELSE sh.comp[yr]

\* C1: compete_adj is a conserving dual write.  For every competing measure,
\* year and adjusted field, the new master value is the old master value less
\* the old contributing value times (1 - share), the new contributing value is
\* the old contributing value times the share (weighted total share for 'total'
\* fields, competed share for 'competed' fields), and master - contributing
\* is unchanged.
C1_DualWrite ==
    [][PrimaryCompeted =>
        \A i \in 1 .. Len(applied'.ms) :
            LET m == applied'.ms[i]
                k == applied'.key
                old == markets[adopt_scheme][m].competed
                new == markets'[adopt_scheme][m].competed
            IN  \A f \in Fields, yr \in aeo_years :
                    LET s == ShareOf(applied'.shares[i], f, yr)
                        c == old.contrib[k][f][yr]
                    IN  /\ new.contrib[k][f][yr] = RMul(c, s)
                        /\ new.master_mseg[f][yr] =
                               RSub(old.master_mseg[f][yr], RMul(c, RSub(One, s)))
                        /\ RSub(new.master_mseg[f][yr], new.contrib[k][f][yr]) =
                               RSub(old.master_mseg[f][yr], c)]_vars

\* a primary key was just competed and a measure lost part of a nonzero value
C1_Witness ==
    /\ JustCompeted
    /\ \E i \in 1 .. Len(applied.ms), yr \in aeo_years :
           /\ RLt(Zero, applied.shares[i].tot[yr]) /\ RLt(applied.shares[i].tot[yr], One)
           /\ RLt(Zero, applied.shares[i].comp[yr]) /\ RLt(applied.shares[i].comp[yr], One)
           /\ applied.shares[i].tot[yr] # applied.shares[i].comp[yr]
           /\ Competed(applied.ms[i]).contrib[applied.key][<<"energy", "total", "baseline">>][yr]
                  # Zero

\* every measure competing for the key just competed held the same value of
\* field f in year yr before the competition
SameValue(f, yr) ==
    \A i \in 1 .. Len(applied.ms) :
        InitContrib(applied.ms[i], applied.key, f, yr) =
            InitContrib(applied.ms[1], applied.key, f, yr)

\* the sum over the competing measures of the adjusted contributing value
AdjustedSum(f, yr) ==
    RSumSeq([i \in 1 .. Len(applied.ms) |->
                Competed(applied.ms[i]).contrib[applied.key][f][yr]])

\* C2: conservation of apportionment.  For every year and every primary key
\* competed by two or more measures that each held the same value for the key
\* before the competition, the adjusted contributing values of those measures
\* sum to that value.
C2_Conservation ==
    JustCompeted =>
        \A f \in Fields, yr \in aeo_years :
            SameValue(f, yr) =>
                AdjustedSum(f, yr) = InitContrib(applied.ms[1], applied.key, f, yr)

\* a weighted total share of the year was cut down to 1 by compete_adj
Clamped(yr) ==
    \E i \in 1 .. Len(applied.ms) : applied.shares[i].unc[yr] # applied.shares[i].tot[yr]

\* the same sums in the years in which compete_adj cut no share down to 1
C2_ConservedUnlessClamped ==
    JustCompeted =>
        \A f \in Fields, yr \in aeo_years :
            (SameValue(f, yr) /\ ~Clamped(yr)) =>
                AdjustedSum(f, yr) = InitContrib(applied.ms[1], applied.key, f, yr)

\* the sum over the competing measures of a share of the year
ShareSum(which, yr) ==
    RSumSeq([i \in 1 .. Len(applied.ms) |-> applied.shares[i][which][yr]])

\* no competing measure of the key just competed has a sub-market scaling
\* fraction, so that no share is added to the raw shares
NoneAdded ==
    \A i \in 1 .. Len(applied.ms), yr \in aeo_years : applied.shares[i].added[yr] = Zero

\* C3: for every year in which a competing measure is on the market, the
\* weighted total shares (the stock-turnover moving averages of the raw shares,
\* nothing added for sub-markets) of the measures competing for a primary key
\* sum to 1, under both adoption schemes.
C3_TotalSharesSumToOne ==
    (JustCompeted /\ NoneAdded) =>
        \A yr \in aeo_years :
            OnMkt(applied.ms, yr) # {} => ShareSum("tot", yr) = One

\* the same sum in the years in which compete_adj cut no share down to 1
C3_SumToOneUnlessClamped ==
    (JustCompeted /\ NoneAdded) =>
        \A yr \in aeo_years :
            (OnMkt(applied.ms, yr) # {} /\ ~Clamped(yr)) => ShareSum("tot", yr) = One

\* C4: residential raw shares.  In every year the raw shares of the measures
\* competing for a key sum to 1; a measure on the market gets its weight
\* divided by the sum of the weights of the measures on the market that year,
\* a measure off the market gets 0 if a competitor is on the market, and
\* every measure gets 1/n in a year in which none is on the market.
C4_ResRawShares ==
    (JustCompeted /\ IsResKey(applied.key)) =>
        LET ms == applied.ms
            k == applied.key
            raw(i, yr) == applied.shares[i].raw[yr]
            wsum(yr) == RSumOver(OnMkt(ms, yr),
                                 [j \in OnMkt(ms, yr) |-> res_weight(ms[j], k, yr)])
        IN  \A yr \in aeo_years :
                /\ ShareSum("raw", yr) = One
                /\ \A i \in 1 .. Len(ms) :
                       IF i \in OnMkt(ms, yr)
                       THEN RMul(raw(i, yr), wsum(yr)) = res_weight(ms[i], k, yr)
                       ELSE IF OnMkt(ms, yr) # {} THEN raw(i, yr) = Zero
                       ELSE RMul(raw(i, yr), R(Len(ms))) = One

\* a residential key was competed by measures of different weights with a
\* year in which one of them only is on the market
C4_Witness ==
    /\ JustCompeted /\ IsResKey(applied.key)
    /\ \E yr \in aeo_years : OnMkt(applied.ms, yr) \notin {{}, 1 .. Len(applied.ms)}
    /\ \E yr \in aeo_years, i \in 1 .. Len(applied.ms) :
           /\ OnMkt(applied.ms, yr) = 1 .. Len(applied.ms)
           /\ RLt(Frac(1, 2), applied.shares[i].raw[yr])
           /\ RLt(applied.shares[i].raw[yr], One)

\* the measures on the market with the lowest total cost of a rate bin
BinWinners(ms, yr, dr) ==
    {x \in OnMkt(ms, yr) :
        \A y \in OnMkt(ms, yr) : RLe(tot_cost(ms[x], yr)[dr], tot_cost(ms[y], yr)[dr])}

C5_WitnessDivided ==
    /\ JustCompeted /\ ~IsResKey(applied.key)
    /\ \E yr \in aeo_years, dr1, dr2 \in 1 .. Len(com_timeprefs_rates) :
           /\ BinWinners(applied.ms, yr, dr1) = {1}
           /\ BinWinners(applied.ms, yr, dr2) = {2}

\* C6: in one compete_measures call each distinct contributing key of the
\* measures is processed exactly once, the primary keys in sorted order and
\* before any secondary key, and the heating/cooling overlaps are removed only
\* after all keys; hence the original/adjusted captured energy is written
\* (by the passes on primary keys) before a secondary adjustment reads it.
C6_KeyOrder ==
    [][pc.at = "keys" =>
        LET n == Len(msegs)
            new(m) == markets'[adopt_scheme][m].competed
        IN  \* msegs lists every key once, primary keys sorted and first
            /\ {msegs[i] : i \in 1 .. n} = UNION {measures[m].keys : m \in Meas}
            /\ \A i, j \in 1 .. n :
                   i < j => /\ msegs[i] # msegs[j]
                            /\ ~(msegs[i][1] = "secondary" /\ msegs[j][1] = "primary")
                            /\ (msegs[j][1] = "primary" => KeyLess(msegs[i], msegs[j]))
            \* a pass handles the next key of msegs and that key only
            /\ (pc'.at = "keys" /\ msu_ind' # msu_ind) =>
                   /\ msu_ind < n /\ msu_ind' = msu_ind + 1
                   /\ \A m \in Meas :
                          \A k \in measures[m].keys \ {msu_now} :
                              new(m).contrib[k] = Competed(m).contrib[k]
                   /\ msu_now[1] = "secondary" =>
                          \A m \in Meas : new(m).secnd = Competed(m).secnd
            \* the overlap removal and the end of the call come after all keys
            /\ pc'.at = "competed" => msu_ind = n]_vars

\* all keys are processed, a secondary key was adjusted with the shares
\* recorded for a primary key, and overlapping heating keys are left
C6_Witness ==
    /\ pc.at = "keys" /\ msu_ind = Len(msegs) /\ htcl_adj_data.active
    /\ \E m \in Meas :
           /\ KeySH \in measures[m].keys
           /\ Competed(m).contrib[KeySH] # InitContribs(m)[KeySH]
           /\ \E yr \in aeo_years :
                  RLt(Zero, Competed(m).secnd["original energy (total captured)"][
                                secnd_mseg_adjkey(KeySH)][yr])

\* a pass of the loop of compete_measures that adjusts a secondary key
SecondaryAdjusted ==
    /\ AtKey
    /\ msu_now[1] = "secondary" /\ measures_adj_scnd(msu_now) # {}
    /\ msu_ind' = msu_ind + 1

\* the primary keys of measure m that were competed and share the climate
\* zone, building type and structure type ak
LinkedPrimaryKeys(m, ak) ==
    {k \in measures[m].keys :
        /\ k[1] = "primary" /\ secnd_mseg_adjkey(k) = ak
        /\ Len(measures_adj(k)) > 1}

\* adjusted / original captured energy of case x ("baseline" or "efficient")
\* and the given status over the linked primary keys: the original is the
\* energy before the competition, the adjusted that energy times the share
CapturedRatio(m, ak, status, x, yr) ==
    LET ks == LinkedPrimaryKeys(m, ak)
        f == <<"energy", status, x>>
        orig == RSumOver(ks, [k \in ks |-> InitContrib(m, k, f, yr)])
        adjd == RSumOver(ks, [k \in ks |-> Competed(m).contrib[k][f][yr]])
    IN  RDiv(adjd, orig)

SecondaryScaledBy(x) ==
    \A m \in measures_adj_scnd(msu_now) :
        \A f \in EnergyCarbonFields, yr \in aeo_years :
            markets'[adopt_scheme][m].competed.contrib[msu_now][f][yr] =
                RMul(Competed(m).contrib[msu_now][f][yr],
                     CapturedRatio(m, secnd_mseg_adjkey(msu_now), FieldStatus(f), x, yr))

\* C7: secondary adjustment factor.  When a secondary key of a measure is
\* adjusted, its contributing energy, carbon, energy cost and carbon cost of a
\* year are multiplied by the ratio of adjusted to original captured baseline
\* energy recorded for the same climate zone, building type and structure
\* type while the measure's primary keys were competed: the sum over those
\* keys of baseline energy times weighted total share, over the sum of
\* baseline energy ('competed' fields: competed energy and competed share).
C7_SecondaryFactor == [][SecondaryAdjusted => SecondaryScaledBy("baseline")]_vars

\* the factor compete_adj records and secondary_adj applies: the same ratio
\* of the efficient-case energy
C7_SecondaryFactorEfficient == [][SecondaryAdjusted => SecondaryScaledBy("efficient")]_vars

\* the energy of a measure, year and case in all its breakout buckets
BreakoutSum(mk, which, yr) ==
    RSumOver(DOMAIN mk.mseg_out_break[which],
             [b \in DOMAIN mk.mseg_out_break[which] |-> mk.mseg_out_break[which][b][yr]])

\* C8: the breakouts stay consistent with the aggregate.  In every step of
\* compete_adj, secondary_adj and htcl_adj, for each measure and year, the
\* amount removed from the master total baseline (efficient) energy is the
\* amount removed from the baseline (efficient) breakout buckets, for a key
\* step from the bucket of the key alone, and the amount removed from a
\* savings bucket is the baseline less the efficient amount removed from it.
C8_BreakoutsFollowMaster ==
    [][pc.at = "keys" =>
        \A m \in Meas, yr \in aeo_years :
            LET old == Competed(m)
                new == markets'[adopt_scheme][m].competed
                removed(which, b) ==
                    RSub(old.mseg_out_break[which][b][yr], new.mseg_out_break[which][b][yr])
            IN  /\ \A x \in Cases :
                       RSub(old.master_mseg[<<"energy", "total", x>>][yr],
                            new.master_mseg[<<"energy", "total", x>>][yr]) =
                           RSub(BreakoutSum(old, x, yr), BreakoutSum(new, x, yr))
                /\ \A b \in Buckets(m) :
                       /\ removed("savings", b) =
                              RSub(removed("baseline", b), removed("efficient", b))
                       /\ (msu_ind' # msu_ind /\ b # Bucket(msu_now)) =>
                              \A which \in {"baseline", "efficient", "savings"} :
                                  removed(which, b) = Zero]_vars

\* the competition is over: primary keys were competed, a secondary key
\* adjusted and overlaps removed with different baseline and efficient parts
C8_Witness ==
    /\ pc.at = "competed" /\ htcl_adj_data.active
    /\ \E m \in Meas, yr \in aeo_years :
           LET unc == markets[adopt_scheme][m].uncompeted
               removed(which, b) ==
                   RSub(unc.mseg_out_break[which][b][yr],
                        Competed(m).mseg_out_break[which][b][yr])
           IN  /\ \E b \in Buckets(m) :
                      /\ b[3] = "Lighting"
                      /\ RLt(Zero, removed("baseline", b))
               /\ \E b \in Buckets(m) :
                      /\ b[3] \in HtClEquip \cup HtClEnv
                      /\ RLt(Zero, removed("baseline", b))
                      /\ removed("savings", b) # Zero

\* the first year of the horizon in which the measure can compete
FirstYear(m) == measures[m].market_entry_year

\* the first year in which any of the competing measures can compete
FirstYearOfAll(ms) == MinOfSet(mkt_entry_yrs(ms))

\* (1 - w) x prev + w x (raw + added share of the year), at most 1
MovingAverage(sh, prev, yr) ==
    LET v == RAdd(RMul(RSub(One, sh.wt[yr]), prev), RMul(sh.wt[yr], RAdd(sh.raw[yr], sh.added[yr])))
    IN  IF RLt(One, v) THEN One ELSE v

\* C9: stock-turnover moving average.  Under 'Max adoption potential', in
\* every year after the first year a measure can compete, its weighted total
\* share is (1 - w) x the previous year's weighted total share + w x the
\* year's raw share (plus added sub-market share), w the turnover weight of
\* the year, and the result is at most 1.
C9_MovingAverage ==
    (JustCompeted /\ applied.scheme = "Max adoption potential") =>
        \A i \in 1 .. Len(applied.ms), yr \in aeo_years :
            yr > FirstYear(applied.ms[i]) =>
                LET sh == applied.shares[i]
                IN  sh.tot[yr] = MovingAverage(sh, sh.tot[yr - 1], yr)

\* the same recurrence on the previous year's share before it is cut down to 1
C9_MovingAverageOfUncut ==
    (JustCompeted /\ applied.scheme = "Max adoption potential") =>
        \A i \in 1 .. Len(applied.ms), yr \in aeo_years :
            yr > FirstYearOfAll(applied.ms) =>
                LET sh == applied.shares[i]
                IN  sh.tot[yr] = MovingAverage(sh, sh.unc[yr - 1], yr)

\* C10 as claimed: in the first year the measure itself can compete, and in
\* every year under 'Technical potential', the weighted total share applied
\* by compete_adj is the year's raw share (plus added sub-market share).
C10_FirstYearOfMeasure ==
    JustCompeted =>
        \A i \in 1 .. Len(applied.ms), yr \in aeo_years :
            (yr = FirstYear(applied.ms[i]) \/ applied.scheme = "Technical potential") =>
                applied.shares[i].tot[yr] =
                    RAdd(applied.shares[i].raw[yr], applied.shares[i].added[yr])

\* C10: in the first year in which any of the measures competing for the key
\* can compete and in every earlier year, and in every year under 'Technical
\* potential', the weighted total share applied by compete_adj is the year's
\* raw share (plus added sub-market share), whatever the turnover rates and
\* the shares of earlier years.
C10_FirstYearOfAll ==
    JustCompeted =>
        \A i \in 1 .. Len(applied.ms), yr \in aeo_years :
            (yr <= FirstYearOfAll(applied.ms) \/ applied.scheme = "Technical potential") =>
                applied.shares[i].tot[yr] =
                    RAdd(applied.shares[i].raw[yr], applied.shares[i].added[yr])

\* under 'Technical potential' a measure's raw share changed from one year to
\* the next, with a share added for a sub-market, and the share applied in
\* the later year is that year's
C10_Witness ==
    /\ JustCompeted /\ applied.scheme = "Technical potential"
    /\ \E i \in 1 .. Len(applied.ms), yr \in aeo_years :
           /\ yr > FirstYearOfAll(applied.ms)
           /\ applied.shares[i].raw[yr] # applied.shares[i].raw[yr - 1]
           /\ applied.shares[i].added[yr] # Zero
           /\ applied.shares[i].tot[yr] # applied.shares[i].tot[yr - 1]

(***************************************************************************)
(* Sub-market scaling                                                      *)
(***************************************************************************)
\* the call of fn has returned
Returned(fn) == call.fn = fn /\ call.done

\* the competitors of the call that apply to the whole segment
FullSegment(c) ==
    {i \in 1 .. Len(c.args[2]) : sub_market_scaling(c.args[2][i], c.args[3]) = One}

\* (1 - sub-market scaling) * raw share: the share that competitor i leaves
\* uncaptured in year yr
Uncaptured(c, i, yr) ==
    RMul(RSub(One, sub_market_scaling(c.args[2][i], c.args[3])), c.args[1][i][yr])

UncapturedSum(c, yr) == RSumSeq([i \in 1 .. Len(c.args[2]) |-> Uncaptured(c, i, yr)])

\* C11: the uncaptured shares of the partially applicable measures are added
\* only to the competitors that apply to the whole segment, in proportion to
\* their raw shares (evenly if all of these are 0).  No partially applicable
\* measure receives added share, and with at least one full-segment
\* competitor the added shares sum to the sum of the uncaptured shares.
C11_UncapturedRedistributed ==
    Returned("find_added_sbmkt_fracs") =>
        \A yr \in aeo_years :
            LET n == Len(call.args[2])
                full == FullSegment(call)
                raw_full == RSumOver(full, [i \in full |-> call.args[1][i][yr]])
            IN  /\ \A i \in (1 .. n) \ full : call.result[i][yr] = Zero
                /\ full # {} =>
                       RSumSeq([i \in 1 .. n |-> call.result[i][yr]]) = UncapturedSum(call, yr)
                /\ \A i \in full :
                       call.result[i][yr] =
                           RMul(UncapturedSum(call, yr),
                                IF raw_full = Zero THEN Frac(1, Cardinality(full))
                                ELSE RDiv(call.args[1][i][yr], raw_full))

\* two full-segment competitors with different raw shares received different
\* parts of a partially applicable measure's uncaptured share
C11_Witness ==
    /\ Returned("find_added_sbmkt_fracs")
    /\ \E yr \in aeo_years, i, j \in FullSegment(call) :
          /\ RLt(Zero, call.args[1][i][yr]) /\ RLt(call.args[1][i][yr], call.args[1][j][yr])
          /\ RLt(Zero, call.result[i][yr]) /\ RLt(call.result[i][yr], call.result[j][yr])

\* two full-segment competitors with raw shares of 0 received the halves of a
\* partially applicable measure's uncaptured share
C11_WitnessEvenly ==
    /\ Returned("find_added_sbmkt_fracs")
    /\ \E yr \in aeo_years, i, j \in FullSegment(call) :
          /\ i # j /\ call.args[1][i][yr] = Zero /\ call.args[1][j][yr] = Zero
          /\ RLt(Zero, call.result[i][yr]) /\ call.result[i][yr] = call.result[j][yr]

\* the key of the loop pass just made, a primary key held by one measure
JustPassedSole ==
    /\ pc.at = "keys" /\ msu_ind > 0
    /\ InKey("primary", msegs[msu_ind]) /\ Len(measures_adj(msegs[msu_ind])) = 1

\* none of the measures just competed applies to the whole segment
NoFullSegment ==
    \A i \in 1 .. Len(applied.ms) : sub_market_scaling(applied.ms[i], applied.key) # One

\* C12: where no competing measure applies to the whole segment, the
\* uncaptured fraction is dropped: every added share is 0 in every year and
\* the competed share is the raw share.  A partially applicable measure that
\* is alone on a key keeps its sub-market fraction of the segment, not 100%.
C12_UncapturedDropped ==
    /\ JustCompeted /\ NoFullSegment =>
           \A i \in 1 .. Len(applied.ms), yr \in aeo_years :
               /\ applied.shares[i].added[yr] = Zero
               /\ applied.shares[i].comp[yr] = applied.shares[i].raw[yr]
    /\ JustPassedSole =>
           LET k == msegs[msu_ind]
               m == measures_adj(k)[1]
           IN  \A yr \in aeo_years :
                   /\ Competed(m).contrib[k][<<"energy", "total", "baseline">>][yr] =
                          RMul(sub_market_scaling(m, k), R(SegEnergy(k)))
                   /\ Competed(m).contrib[k][<<"carbon", "total", "baseline">>][yr] =
                          RMul(sub_market_scaling(m, k), R(2 * SegEnergy(k)))

\* two partially applicable measures were competed and one of them has a raw
\* share above 0
C12_Witness ==
    /\ JustCompeted /\ NoFullSegment
    /\ \E i \in 1 .. Len(applied.ms), yr \in aeo_years : RLt(Zero, applied.shares[i].raw[yr])

\* a measure with a sub-market scaling of 3/5 is alone on a primary key
C12_WitnessSole ==
    /\ JustPassedSole
    /\ sub_market_scaling(measures_adj(msegs[msu_ind])[1], msegs[msu_ind]) = Frac(3, 5)

(***************************************************************************)
(* Keys without competitors or counterparts                                *)
(***************************************************************************)
\* the loop pass over a primary key that one measure holds alone
SolePass ==
    /\ AtKey
    /\ InKey("primary", msu_now) /\ Len(measures_adj(msu_now)) = 1
    /\ msu_ind' = msu_ind + 1

\* C13: a measure that is the only holder of a primary key keeps 100% of it:
\* the loop pass over the key changes no market data, so the master and the
\* contributing values of the key are the same after the pass as before.
C13_SoleHolderUnadjusted ==
    [][SolePass =>
          /\ markets' = markets
          /\ LET m == measures_adj(msu_now)[1]
             IN  /\ markets'[adopt_scheme][m].competed.contrib[msu_now] =
                        markets[adopt_scheme][m].competed.contrib[msu_now]
                 /\ markets'[adopt_scheme][m].competed.master_mseg =
                        markets[adopt_scheme][m].competed.master_mseg]_vars

\* a measure not yet on the market in the first year was alone on a primary
\* key with energy use, and the key was passed
C13_Witness ==
    /\ JustPassedSole
    /\ LET k == msegs[msu_ind]
           m == measures_adj(k)[1]
       IN  /\ measures[m].market_entry_year > 1
           /\ RLt(Zero, Competed(m).contrib[k][<<"energy", "total", "efficient">>][1])

\* the step that leaves the loop over the keys, with or without htcl_adj
LeaveCompetition == pc.at = "keys" /\ msu_ind = Len(msegs) /\ pc'.at = "competed"

\* some primary key of the run is on the given side of heating/cooling
HasSide(side) ==
    \E i \in 1 .. Len(msegs) : InKey("primary", msegs[i]) /\ InKey(side, msegs[i])

\* the ledger has an entry of the opposite side for the key's climate zone,
\* building type, structure type, fuel and end use
HasCounterpart(k) ==
    msu_split_key(k) \in
        DOMAIN htcl_adj_data[IF InKey("supply", k) THEN "demand" ELSE "supply"]

HtclKeys(m) == {k \in measures[m].keys : IsHtclKey(k)}

\* C14: the removal of heating/cooling overlaps changes nothing without a
\* counterpart.  With supply-side keys only or demand-side keys only no
\* market data change.  With both sides, a key without a ledger entry of the
\* opposite side is skipped: the measure's markets are those adjusted for its
\* other keys, its contributing values of the key and the key's breakout
\* bucket keep their values, and a measure all of whose keys lack a
\* counterpart is unchanged.
C14_NoCounterpartNoChange ==
    [][LeaveCompetition =>
          /\ ~(HasSide("supply") /\ HasSide("demand")) => markets' = markets
          /\ \A m \in Meas :
                LET old == markets[adopt_scheme][m].competed
                    new == markets'[adopt_scheme][m].competed
                    matched == {k \in HtclKeys(m) : HasCounterpart(k)}
                IN  /\ m \in measures_htcl_adj =>
                           new = htcl_adj_keys(old, SortKeys(matched), htcl_adj_data)
                    /\ matched = {} => new = old
                    /\ \A k \in HtclKeys(m) \ matched :
                           /\ new.contrib[k] = old.contrib[k]
                           /\ (\A j \in matched : Bucket(j) # Bucket(k)) =>
                                  \A w \in DOMAIN old.mseg_out_break :
                                      new.mseg_out_break[w][Bucket(k)] =
                                          old.mseg_out_break[w][Bucket(k)]]_vars

\* both sides of heating/cooling are in the ledger and a measure with energy
\* on a key without counterpart also holds a key with counterpart
C14_Witness ==
    /\ pc.at = "competed" /\ htcl_adj_data.active
    /\ HasSide("supply") /\ HasSide("demand")
    /\ \E m \in Meas : \E k, j \in HtclKeys(m) :
          /\ ~HasCounterpart(k) /\ HasCounterpart(j)
          /\ RLt(Zero, Competed(m).contrib[k][<<"energy", "total", "baseline">>][1])
          /\ RLt(Competed(m).master_mseg[<<"energy", "total", "baseline">>][1],
                 markets[adopt_scheme][m].uncompeted.master_mseg[
                     <<"energy", "total", "baseline">>][1])

\* the run has supply-side keys only and the competition is over
C14_WitnessOneSide ==
    /\ pc.at = "competed" /\ HasSide("supply") /\ ~HasSide("demand")

(***************************************************************************)
(* Savings ratio of the two sides of heating and cooling                   *)
(***************************************************************************)
\* |1 - relative performance| of a side: |affected savings / total affected|,
\* and 0 where no energy is affected
Deviation(d, yr) ==
    IF d.total_affected[yr] = Zero THEN Zero
    ELSE RAbs(RDiv(d.affected_savings[yr], d.total_affected[yr]))

\* C15: the savings ratio used for the supply side and the one used for the
\* demand side of the same segment sum to 1 in every year; each is its own
\* side's |1 - relative performance| over the sum of both sides' deviations,
\* and both are 0.5 when neither side deviates.
C15_SaveRatiosSumToOne ==
    Returned("save_ratio") =>
        \A yr \in aeo_years :
            LET a == Deviation(call.args[1], yr)
                b == Deviation(call.args[2], yr)
                r == call.result[yr]
            IN  /\ RAdd(r.tech, r.overlp) = One
                /\ RAdd(a, b) # Zero =>
                       r.tech = RDiv(a, RAdd(a, b)) /\ r.overlp = RDiv(b, RAdd(a, b))
                /\ RAdd(a, b) = Zero => r.tech = Frac(1, 2) /\ r.overlp = Frac(1, 2)

\* both sides deviate and the side that deviates less has the smaller ratio
C15_Witness ==
    /\ Returned("save_ratio")
    /\ \E yr \in aeo_years :
          /\ RLt(Zero, Deviation(call.args[1], yr))
          /\ RLt(Deviation(call.args[1], yr), Deviation(call.args[2], yr))
          /\ RLt(Zero, call.result[yr].tech)
          /\ RLt(call.result[yr].tech, call.result[yr].overlp)

\* neither side deviates although both affect energy
C15_WitnessNoDeviation ==
    /\ Returned("save_ratio")
    /\ \E yr \in aeo_years :
          /\ call.args[1].total_affected[yr] # Zero /\ call.args[2].total_affected[yr] # Zero
          /\ call.result[yr].tech = Frac(1, 2)

(***************************************************************************)
(* The two passes of a scenario                                            *)
(***************************************************************************)
\* baseline less efficient value of the i-th master field in the markets mk
MarketSavings(mk, i, yr) ==
    RSub(mk.master_mseg[mast_list("baseline")[i]][yr],
         mk.master_mseg[mast_list("efficient")[i]][yr])

\* the consumer metrics of every measure are written and closed
ConsumerMetricsFinal ==
    \A m \in Meas :
        /\ ~update_results[m].consumer
        /\ \A yr \in aeo_years : consumer_metrics[m][yr] # UnitNone

\* C16: each adoption scenario runs, in this order, the uncompeted
\* calculation, the competition, the competed calculation and the output
\* step.  The competition starts and changes markets only once the consumer
\* metrics of every measure are final and the uncompeted savings are written,
\* and the competed savings are computed from the markets as the competition
\* left them.
C16_TwoPasses ==
    [][/\ pc.at = "uncompeted" =>
              /\ pc'.at = "compete" /\ markets' = markets
              /\ \A m \in Meas, i \in 1 .. 10, yr \in aeo_years :
                     savings'[m][adopt_scheme].uncompeted[i][yr] =
                         MarketSavings(markets[adopt_scheme][m].uncompeted, i, yr)
       /\ pc.at = "compete" => pc'.at = "keys" /\ ConsumerMetricsFinal /\ markets' = markets
       /\ pc.at = "keys" =>
              /\ pc'.at \in {"keys", "competed", "AttributeError"} /\ ConsumerMetricsFinal
              /\ savings' = savings
              /\ \A m \in Meas :
                     /\ ~update_results[m].savings[adopt_scheme].uncompeted
                     /\ update_results[m].savings[adopt_scheme].competed
       /\ pc.at = "competed" =>
              /\ pc'.at = "finalize" /\ markets' = markets
              /\ \A m \in Meas, i \in 1 .. 10, yr \in aeo_years :
                     savings'[m][adopt_scheme].competed[i][yr] =
                         MarketSavings(markets[adopt_scheme][m].competed, i, yr)
       /\ pc.at = "finalize" =>
              /\ savings' = savings
              /\ \/ pc' = IF pc.scheme < Len(adopt_schemes)
                          THEN [scheme |-> pc.scheme + 1, at |-> "uncompeted"]
                          ELSE [scheme |-> pc.scheme, at |-> "done"]
                 \/ pc' = [pc EXCEPT !.at = "ZeroDivisionError"]
       /\ markets' # markets => pc.at \in {"load", "keys", "finalize"}
       /\ pc'.scheme # pc.scheme => pc.at = "finalize"]_vars

\* the competed energy savings of a measure are written and are below its
\* uncompeted energy savings
C16_Witness ==
    /\ pc.at = "finalize"
    /\ \E m \in Meas, yr \in aeo_years :
          RLt(savings[m][adopt_scheme].competed[4][yr],
              savings[m][adopt_scheme].uncompeted[4][yr])

(***************************************************************************)
(* Consumer metrics                                                        *)
(***************************************************************************)
\* C17: the consumer metrics of a measure (unit costs, IRR, payback) are
\* computed once.  They are written by the first call of
\* calc_savings_metrics, which closes the measure's flag, and no later call
\* changes them.
C17_ConsumerMetricsOnce ==
    [][\A m \in Meas :
          /\ ~update_results[m].consumer =>
                 consumer_metrics'[m] = consumer_metrics[m] /\ ~update_results'[m].consumer
          /\ consumer_metrics'[m] # consumer_metrics[m] =>
                 /\ pc = [scheme |-> 1, at |-> "uncompeted"]
                 /\ update_results[m].consumer /\ ~update_results'[m].consumer
                 /\ \A yr \in aeo_years : consumer_metrics[m][yr] = UnitNone
          /\ (pc.at = "uncompeted" /\ pc.scheme = 1) =>
                 \A yr \in aeo_years : consumer_metrics'[m][yr] # UnitNone]_vars

\* the competed calculation has run on markets that the competition changed
\* and the measure has the payback of the first calculation
C17_Witness ==
    /\ pc.at = "finalize"
    /\ \E m \in Meas, yr \in aeo_years :
          /\ consumer_metrics[m][yr].payback_e # <<>>
          /\ consumer_metrics[m][yr].payback_e # R(999)
          /\ Competed(m).master_mseg[<<"cost", "energy", "total", "efficient">>][yr] #
                 markets[adopt_scheme][m].uncompeted.master_mseg[
                     <<"cost", "energy", "total", "efficient">>][yr]

(***************************************************************************)
(* Payback                                                                 *)
(***************************************************************************)
\* the investment of the returned payback call: the first cash flow negated
Investment == RNeg(call.args[1][1])

\* the sum of the cash flows from the lo-th to the hi-th, by halves
RECURSIVE FlowSum(_, _, _)
FlowSum(cf, lo, hi) ==
    IF hi < lo THEN Zero
    ELSE IF lo = hi THEN cf[lo]
    ELSE RAdd(FlowSum(cf, lo, (lo + hi) \div 2), FlowSum(cf, (lo + hi) \div 2 + 1, hi))

\* the sum of the first i later cash flows, the last one repeated as needed
CumulativeAfter(i) ==
    LET cf == call.args[1]
        n == Len(cf) - 1
        given == FlowSum(cf, 2, (IF i <= n THEN i ELSE n) + 1)
    IN  IF i <= n THEN given ELSE RAdd(given, RMul(R(i - n), cf[Len(cf)]))

\* the years, of the first 100, at whose end the investment is recovered
Crossings == {i \in 1 .. 100 : ~RLt(CumulativeAfter(i), Investment)}

\* k + (investment - cumulative after k years) / (flow of year k + 1) for
\* the first crossing in year k + 1
Interpolated ==
    LET k == (CHOOSE i \in Crossings : \A j \in Crossings : i <= j) - 1
    IN  RAdd(R(k), RDiv(RSub(Investment, CumulativeAfter(k)),
                        RSub(CumulativeAfter(k + 1), CumulativeAfter(k))))

\* C18: for a negative first entry whose investment is recovered within 100
\* years, payback returns k + (investment - cumulative after k years) /
\* (flow of year k + 1), where k is the number of whole years before the
\* first crossing.
C18_PaybackInterpolates ==
    (/\ Returned("payback")
     /\ RLt(call.args[1][1], Zero)
     /\ Crossings # {}) => call.result = Interpolated

\* the same for later cash flows none of which is negative
C18_PaybackOfNonnegativeFlows ==
    (/\ Returned("payback")
     /\ RLt(call.args[1][1], Zero)
     /\ \A i \in 2 .. Len(call.args[1]) : ~RLt(call.args[1][i], Zero)
     /\ Crossings # {}) => call.result = Interpolated

\* a payback within the second year or later was interpolated
C18_Witness ==
    /\ Returned("payback")
    /\ RLt(call.args[1][1], Zero) /\ Crossings # {}
    /\ \A i \in 2 .. Len(call.args[1]) : ~RLt(call.args[1][i], Zero)
    /\ RLt(One, call.result) /\ call.result[2] # 1

\* C19: payback returns 0 whenever the first cash flow is not negative, and
\* 999 exactly when the first cash flow is negative and the cumulative later
\* flows never reach the investment within 100 years;
\* payback([-100, 50, 50, 50]) is 2.
C19_PaybackSentinels ==
    Returned("payback") =>
        /\ ~RLt(call.args[1][1], Zero) => call.result = Zero
        /\ call.result = R(999) <=> (RLt(call.args[1][1], Zero) /\ Crossings = {})
        /\ call.args[1] = <<R(-100), R(50), R(50), R(50)>> => call.result = R(2)

\* the same, with 999 exactly for the investments never recovered only where
\* no later cash flow is negative
C19_SentinelsOfNonnegativeFlows ==
    Returned("payback") =>
        /\ ~RLt(call.args[1][1], Zero) => call.result = Zero
        /\ (RLt(call.args[1][1], Zero) /\ Crossings = {}) => call.result = R(999)
        /\ (\A i \in 2 .. Len(call.args[1]) : ~RLt(call.args[1][i], Zero)) =>
               (call.result = R(999) => (RLt(call.args[1][1], Zero) /\ Crossings = {}))
        /\ call.args[1] = <<R(-100), R(50), R(50), R(50)>> => call.result = R(2)

\* the investment is recovered within 100 years, but after the last cash
\* flow given
C19_Witness ==
    /\ Returned("payback")
    /\ RLt(call.args[1][1], Zero)
    /\ Crossings # {} /\ \A i \in Crossings : i > Len(call.args[1]) - 1
    /\ call.result # R(999)

\* the investment is not recovered within 100 years of positive cash flows
C19_WitnessNever ==
    /\ Returned("payback")
    /\ RLt(Zero, call.args[1][Len(call.args[1])])
    /\ call.result = R(999)

\* the call of the example has returned 2
C19_WitnessExample ==
    /\ Returned("payback")
    /\ call.args[1] = <<R(-100), R(50), R(50), R(50)>> /\ call.result = R(2)

(***************************************************************************)
(* Cost of conserved energy and carbon                                     *)
(***************************************************************************)
\* net present value at the discount rate of 7%: the i-th value divided by
\* 1.07 to the power i - 1
Npv(values) ==
    RSumSeq([i \in 1 .. Len(values) |->
                RDiv(values[i], RPow(Frac(107, 100), i - 1))])

\* the cash flows of the returned metric_update call: incremental capital
\* cost, and a saving x in each year of the measure's life
CapitalFlows ==
    cashflows_s_tot(call.args[1], call.args[2], call.args[3], call.args[4], call.args[5])
YearlyFlows(x) == <<Zero>> \o [i \in 1 .. call.args[3] |-> x]

\* C20: the cost of conserved energy is 999, with and without benefits, when
\* the net present value of the energy savings is not above 0; otherwise
\* cce = -NPV(capital) / NPV(energy savings) and cce_bens = -(NPV(capital) +
\* NPV(carbon cost savings)) / NPV(energy savings).  The cost of conserved
\* carbon is the same with the NPV of the carbon savings times 10 ** 6 as
\* the divisor and the NPV of the energy cost savings as the benefit.
C20_CostOfConserved ==
    Returned("metric_update") =>
        LET npv_s == Npv(CapitalFlows)
            npv_e == Npv(YearlyFlows(call.args[7]))
            npv_c == Npv(YearlyFlows(call.args[9]))
            npv_esave == Npv(YearlyFlows(call.args[6]))
            npv_csave == Npv(YearlyFlows(call.args[8]))
            r == call.result
        IN  /\ ~RLt(Zero, npv_esave) => r.cce = R(999) /\ r.cce_bens = R(999)
            /\ RLt(Zero, npv_esave) =>
                   /\ r.cce = RDiv(RNeg(npv_s), npv_esave)
                   /\ r.cce_bens = RDiv(RNeg(RAdd(npv_s, npv_c)), npv_esave)
            /\ ~RLt(Zero, npv_csave) => r.ccc = R(999) /\ r.ccc_bens = R(999)
            /\ RLt(Zero, npv_csave) =>
                   /\ r.ccc = RDiv(RNeg(npv_s), npv_csave) \o <<"e-6">>
                   /\ r.ccc_bens = RDiv(RNeg(RAdd(npv_s, npv_e)), npv_csave) \o <<"e-6">>

\* energy and carbon are saved over a life of several years with avoided
\* baseline purchases, and the benefits change both costs
C20_Witness ==
    /\ Returned("metric_update")
    /\ call.args[3] > 1 /\ Len(SelectSeq(Tail(CapitalFlows), LAMBDA x : x # Zero)) > 0
    /\ RLt(Zero, call.args[6]) /\ RLt(Zero, call.args[8])
    /\ call.result.cce # R(999) /\ call.result.cce_bens # call.result.cce
    /\ call.result.ccc # R(999) /\ call.result.ccc_bens # call.result.ccc

\* no energy is saved and both costs of conserved energy are 999
C20_WitnessNoSavings ==
    /\ Returned("metric_update")
    /\ call.args[6] = Zero /\ call.result.cce = R(999) /\ call.result.cce_bens = R(999)

(***************************************************************************)
(* Avoided purchases of the baseline technology                            *)
(***************************************************************************)
\* the measure of the call is a full-service, supply-side measure of primary
\* lighting that lives longer than the baseline technology
LongerLivedLighting ==
    /\ call.args[3] > call.args[2]
    /\ "lighting" \in end_use_primary(call.args[1])
    /\ measure_type(call.args[1]) = "full service"
    /\ technology_type_primary(call.args[1]) = "supply"

\* the capital cash flow of year y is the unit stock cost of the baseline in
\* the years of Repurchase and 0 in the other years after year 0
CreditedIn(Repurchase) ==
    \A y \in 1 .. Len(call.result) - 1 :
        call.result[y + 1] = IF LongerLivedLighting /\ y \in Repurchase
                             THEN call.args[4] ELSE Zero

\* C21: the capital cash flows of years 0 .. life_meas carry the unit stock
\* cost of the baseline in the years that are positive multiples of the
\* baseline lifetime up to the measure lifetime, for a full-service
\* supply-side measure of primary lighting that outlives the baseline, and
\* 0 in every other year after year 0 and for every other measure.
C21_RepurchaseUpToLifetime ==
    Returned("cashflows_s_delt") =>
        /\ Len(call.result) = call.args[3] + 1
        /\ CreditedIn({y \in 1 .. call.args[3] : y % call.args[2] = 0})

\* C21 with the years before the end of the measure lifetime: the multiples
\* of the baseline lifetime below the measure lifetime
C21_RepurchaseBeforeEndOfLife ==
    Returned("cashflows_s_delt") =>
        /\ Len(call.result) = call.args[3] + 1
        /\ CreditedIn({y \in 1 .. call.args[3] - 1 : y % call.args[2] = 0})

\* a lighting measure of 4 years against a baseline of 2 years: the cost is
\* credited in year 2 and not in year 4
C21_Witness ==
    /\ Returned("cashflows_s_delt") /\ LongerLivedLighting
    /\ call.args[2] = 2 /\ call.args[3] = 4
    /\ call.result = <<call.args[5], Zero, call.args[4], Zero, Zero>>

\* a measure that is not lighting equipment and outlives the baseline
C21_WitnessOther ==
    /\ Returned("cashflows_s_delt") /\ ~LongerLivedLighting
    /\ call.args[3] > call.args[2]
    /\ \A y \in 2 .. Len(call.result) : call.result[y] = Zero

(***************************************************************************)
(* Years without applicable stock                                          *)
(***************************************************************************)
\* the measure has no applicable stock in the year, or has captured less
\* than one unit of it in the markets of the competition scheme
NoStock(m, comp_scheme, yr) ==
    \/ master_stock_total_all(m, yr) = Zero
    \/ RLt(markets[adopt_scheme][m][comp_scheme].master_mseg[StockMeasure("total")][yr], One)

\* the calculation of the competition scheme that is about to run
CalcStep == pc.at \in {"uncompeted", "competed"}

\* the metrics of the year that the running calculation writes for measure m:
\* the portfolio metrics of the scheme and, while they are open, the
\* consumer metrics
WrittenMetrics(m, yr) ==
    [n \in PortfolioNames |-> portfolio_metrics'[m][adopt_scheme][pc.at][yr][n]]
    @@ (IF update_results[m].consumer THEN consumer_metrics'[m][yr] ELSE <<>>)

C22_WitnessFirstYear ==
    /\ pc.at = "compete"
    /\ \E m \in Meas :
          /\ NoStock(m, "uncompeted", 1) /\ ~NoStock(m, "uncompeted", 2)
          /\ \A n \in ConsumerNames : consumer_metrics[m][1][n] = R(999)
          /\ consumer_metrics[m][2].payback_e # R(999)

(***************************************************************************)
(* Zero total stock                                                        *)
(***************************************************************************)
\* some measure has no applicable stock at all in some year
SomeZeroStock == \E m \in Meas : \E yr \in aeo_years : master_stock_total_all(m, yr) = Zero

Raised == pc.at \in {"AttributeError", "ZeroDivisionError"}

\* C23: in a run where a measure has zero total applicable stock in some
\* year no step raises an error: the metrics take the sentinel, and the
\* competition and the output aggregation complete.
C23_ZeroStockNeverFatal == SomeZeroStock => ~Raised

\* the commercial competition has read the sentinel as a dict of unit costs
C23_CompetitionRaised == SomeZeroStock /\ pc.at = "AttributeError"

\* the stock penetration has divided by the zero stock of a measure that no
\* competition has adjusted
C23_PenetrationRaised ==
    /\ pc.at = "ZeroDivisionError"
    /\ \E m \in ZeroStockTotal : StockAsRead(m)

(***************************************************************************)
(* finalize_outputs and the market data                                    *)
(***************************************************************************)
\* C30: finalize_outputs writes the output structures only and leaves the
\* market data of the measures, master microsegment and breakouts,
\* unchanged.
C30_FinalizeLeavesMarkets == [][pc.at = "finalize" => markets' = markets]_vars

\* what it does leave unchanged: the master microsegments, the contributing
\* microsegments and the uncompeted breakouts
C30_FinalizeLeavesMaster ==
    [][pc.at = "finalize" =>
          \A s \in Schemes, m \in Meas :
              /\ markets'[s][m].uncompeted = markets[s][m].uncompeted
              /\ markets'[s][m].competed.master_mseg = markets[s][m].competed.master_mseg
              /\ markets'[s][m].competed.contrib = markets[s][m].competed.contrib]_vars

\* after the call the competed breakouts hold fractions of the energy totals
C30_BreakoutsNormalized ==
    /\ pc.at = "done"
    /\ \E m \in Meas : \E b \in Buckets(m) : \E yr \in aeo_years :
          LET brk == markets[adopt_scheme][m].competed.mseg_out_break.baseline[b][yr]
              tot == markets[adopt_scheme][m].competed.master_mseg[
                         <<"energy", "total", "baseline">>][yr]
          IN  RLt(One, tot) /\ RLe(brk, One) /\ RLt(Zero, brk)

(***************************************************************************)
(* Memoization of the savings by the update_results flags                  *)
(***************************************************************************)
CompSchemes == {"uncompeted", "competed"}

Flag(m, s, c) == update_results[m].savings[s][c]

\* C24: calc_savings_metrics(scheme, comp) sets the flag of every measure
\* it processes to False, a flag only changes from True to False, and a call
\* made when the flag of a pair is False leaves the measure's savings and
\* portfolio metrics of the pair unchanged.
C24_Memoized ==
    [][/\ \A m \in Meas, s \in Schemes, c \in CompSchemes :
             /\ update_results'[m].savings[s][c] => Flag(m, s, c)
             /\ ~Flag(m, s, c) =>
                   /\ savings'[m][s][c] = savings[m][s][c]
                   /\ portfolio_metrics'[m][s][c] = portfolio_metrics[m][s][c]
       /\ pc.at \in CompSchemes =>
             \A m \in Meas : ~update_results'[m].savings[adopt_scheme][pc.at]
       /\ (pc' = pc /\ pc.at \in {"compete", "finalize"}) =>
             \E c \in CompSchemes : \A m \in Meas : ~update_results'[m].savings[adopt_scheme][c]
      ]_vars

\* the competed savings were computed by an early call, the competition has
\* changed the markets since, and the call of main has left them as they
\* were
C24_Witness ==
    /\ pc.at = "finalize"
    /\ \E m \in Meas :
          /\ ~Flag(m, adopt_scheme, "competed")
          /\ savings[m][adopt_scheme].competed # savings_of(m, adopt_scheme, "competed")
          /\ savings[m][adopt_scheme].competed = savings[m][adopt_scheme].uncompeted

(***************************************************************************)
(* Stock turnover schedule of point values and of arrays                   *)
(***************************************************************************)
\* C25: for every sample of an array of weighted lifetimes the turnover
\* rates are placed in the years in which the point value path places them
\* for the sample's lifetimes.
C25_SameSchedule ==
    Returned("eff_turnover_rt") =>
        \A i \in 1 .. NumSamples : \A yr \in aeo_years :
            call.result.array[yr][i] = call.result.point[i][yr]

\* the array path places every rate one year after the point value path
C25_ArrayOneYearLater ==
    Returned("eff_turnover_rt") =>
        \A i \in 1 .. NumSamples : \A yr \in aeo_years :
            LET life == [y \in aeo_years |-> call.args[1][y][i]]
                yrs == [p \in 1 .. NumYears - call.args[2] + 1 |-> call.args[2] + p - 1]
                later == [y \in aeo_years |-> RAdd(life[y], One)]
                shifted == eff_turnover_rt_point(later, yrs)[yr]
            IN  (call.result.array[yr][i] = Zero) = (shifted = Zero)

\* lifetimes of one year throughout, on the market from the first year
C25_OneYearLifetimes ==
    /\ Returned("eff_turnover_rt")
    /\ call.args[2] = 1
    /\ \A yr \in aeo_years : \A i \in 1 .. NumSamples : call.args[1][yr][i] = One
    /\ call.result.point[1][2] = Frac(101, 100)
    /\ call.result.array[2][1] = Zero

(***************************************************************************)
(* Secondary and heating/cooling adjustments and the stock                 *)
(***************************************************************************)
\* the stock and stock cost fields
StockFields == Fields \ EnergyCarbonFields

\* a step of secondary_adj on the current key, or of htcl_adj
SecondaryOrHtclStep ==
    \/ AtKey /\ ~InKey("primary", msu_now) /\ InKey("secondary", msu_now)
    \/ pc.at = "keys" /\ msu_ind = Len(msegs) /\ htcl_adj_data.active

\* sum of a field over the contributing microsegments of measure m
ContribSum(m, f, yr) ==
    RSumOver(measures[m].keys, [k \in measures[m].keys |-> Competed(m).contrib[k][f][yr]])

\* C26: secondary_adj and htcl_adj leave the stock and stock cost values of
\* the master and of the contributing microsegments as they are.
C26_StockUntouched ==
    [][SecondaryOrHtclStep =>
          \A s \in Schemes, m \in Meas, f \in StockFields :
              /\ markets'[s][m].competed.master_mseg[f] = markets[s][m].competed.master_mseg[f]
              /\ \A k \in measures[m].keys :
                    markets'[s][m].competed.contrib[k][f] = markets[s][m].competed.contrib[k][f]
      ]_vars

\* htcl_adj has taken energy off the master of a measure, whose stock cost
\* is still the sum over its contributing microsegments
C26_Witness ==
    /\ pc.at = "competed" /\ htcl_adj_data.active
    /\ \E m \in measures_htcl_adj : \E yr \in aeo_years :
          /\ RLt(Competed(m).master_mseg[<<"energy", "total", "baseline">>][yr],
                 ContribSum(m, <<"energy", "total", "baseline">>, yr))
          /\ Competed(m).master_mseg[<<"cost", "stock", "total", "baseline">>][yr] =
                 ContribSum(m, <<"cost", "stock", "total", "baseline">>, yr)
          /\ Competed(m).master_mseg[<<"cost", "stock", "total", "baseline">>][yr] # Zero

\* secondary_adj has scaled the energy of a secondary microsegment
C26_WitnessSecondary ==
    /\ pc.at = "keys" /\ msu_ind > 0
    /\ InKey("secondary", msegs[msu_ind])
    /\ \E m \in Meas : \E yr \in aeo_years :
          /\ msegs[msu_ind] \in measures[m].keys
          /\ RLt(Competed(m).contrib[msegs[msu_ind]][<<"energy", "total", "baseline">>][yr],
                 InitContrib(m, msegs[msu_ind], <<"energy", "total", "baseline">>, yr))

(***************************************************************************)
(* Master microsegment and the sum of the contributing microsegments       *)
(***************************************************************************)
\* the energy, carbon and cost fields, stock cost included
CostEnergyCarbonFields == {mast_list(x)[i] : x \in Cases, i \in 1 .. 10}

\* master value less the sum over the contributing microsegments
MasterLessContribs(mk, m, f, yr) ==
    RSub(mk.master_mseg[f][yr],
         RSumOver(measures[m].keys, [k \in measures[m].keys |-> mk.contrib[k][f][yr]]))

InCompetition == pc.at \in {"keys", "competed"}

\* C27: throughout compete_measures the master value less the sum of the
\* contributing values of every energy, carbon and cost field of a measure is
\* what it was before the call, where the master is the sum.
C27_MasterLessContribsKept ==
    InCompetition =>
        \A m \in Meas, f \in CostEnergyCarbonFields, yr \in aeo_years :
            MasterLessContribs(Competed(m), m, f, yr) = Zero

\* the steps of the loop over the keys keep the difference
C27_KeptByKeySteps ==
    [][AtKey =>
          \A m \in Meas, f \in CostEnergyCarbonFields, yr \in aeo_years :
              MasterLessContribs(markets'[adopt_scheme][m].competed, m, f, yr) =
                  MasterLessContribs(Competed(m), m, f, yr)]_vars

\* htcl_adj has taken energy off a master and not off the contributing
\* microsegment
C27_HtclOffMasterOnly ==
    /\ pc.at = "competed" /\ htcl_adj_data.active
    /\ \E m \in measures_htcl_adj : \E yr \in aeo_years :
          RLt(MasterLessContribs(Competed(m), m, <<"energy", "total", "baseline">>, yr), Zero)

(***************************************************************************)
(* Range of the shares applied by compete_adj                              *)
(***************************************************************************)
InUnitInterval(x) == RLe(Zero, x) /\ RLe(x, One)

\* C28: for every competing measure and year the competed share (raw share
\* plus added sub-market share) and the weighted total share applied by
\* compete_adj lie in [0, 1].
C28_SharesInUnitInterval ==
    JustCompeted =>
        \A i \in 1 .. Len(applied.ms), yr \in aeo_years :
            /\ InUnitInterval(applied.shares[i].comp[yr])
            /\ InUnitInterval(applied.shares[i].tot[yr])

\* the competed share is in [0, 1] and the weighted total share at most 1
C28_CompetedShareInUnitInterval ==
    JustCompeted =>
        \A i \in 1 .. Len(applied.ms), yr \in aeo_years :
            /\ InUnitInterval(applied.shares[i].comp[yr])
            /\ RLe(applied.shares[i].tot[yr], One)

\* a negative weighted total share has made an adjusted contributing value
\* negative
C28_NegativeShareApplied ==
    /\ JustCompeted
    /\ \E i \in 1 .. Len(applied.ms), yr \in aeo_years :
          /\ RLt(applied.shares[i].tot[yr], Zero)
          /\ RLt(Competed(applied.ms[i]).contrib[applied.key][
                     <<"energy", "total", "baseline">>][yr], Zero)

(***************************************************************************)
(* What compete_measures writes                                            *)
(***************************************************************************)
\* a step of compete_measures
CompeteStep == pc.at \in {"compete", "keys"}

\* C29: compete_measures(adopt_scheme) leaves the uncompeted market data of
\* every measure and all the market data of the other adoption schemes as
\* they are.
C29_OnlyCompetedOfScheme ==
    [][CompeteStep =>
          \A s \in Schemes, m \in Meas :
              /\ markets'[s][m].uncompeted = markets[s][m].uncompeted
              /\ s # adopt_scheme => markets'[s][m] = markets[s][m]]_vars

\* the competition of the second scheme has changed the competed master of a
\* measure, and the measure's markets of the first scheme differ from it
C29_Witness ==
    /\ pc = [scheme |-> 2, at |-> "competed"]
    /\ \E m \in Meas :
          /\ Competed(m).master_mseg # markets[adopt_scheme][m].uncompeted.master_mseg
          /\ Competed(m).master_mseg # markets[adopt_schemes[1]][m].competed.master_mseg

====
